---- MODULE Spec2Model ----
(***************************************************************************)
(* Home-feed delivery pipeline of the photo-sharing backend:                *)
(*   - the primary store (posts, follow edges),                             *)
(*   - the write services that commit and then publish an event,            *)
(*   - the Redis stream with its consumer group and pending lists,          *)
(*   - the worker manager and the event handler,                            *)
(*   - the Redis sorted-set feed cache,                                     *)
(*   - the feed read service.                                               *)
(*                                                                         *)
(* Time is counted in half-second ticks: tick t lies in second t \div 2,    *)
(* in its first half when t is even and in its second half when t is odd.   *)
(* time.Now().Unix() truncates a tick to its second; the SQL projection     *)
(* EXTRACT(EPOCH FROM created_at)::bigint rounds it to the nearest second.  *)
(***************************************************************************)
EXTENDS Integers, Sequences, FiniteSets, TLC

(***************************************************************************)
(* Bounds of the model.                                                     *)
(***************************************************************************)
NumUsers == 2
MaxPosts == 2
MaxTime == 2
MaxEvents == 2
MaxCrashes == 1
MaxPages == 2
NumClients == 2

\* Database connections with a Follow or Unfollow transaction open at once.
NumConns == 2
MaxCachePosts == 3

(***************************************************************************)
(* Program constants.  The limits are scaled down so that the model reaches *)
(* them: the source values are 500 (cap, warm limit), 20 (backfill),        *)
(* 100 (unfollow removal), 10 (batch, default page) and 50 (largest page).  *)
(***************************************************************************)
FeedCacheCap == 2
CacheWarmLimit == 2
FeedDefaultLimit == 1
FeedMaxLimit == 2
backfillLimit == 2
removeLimit == 2
DefaultWorkerCount == 2
DefaultBatchSize == 2

Users == 1..NumUsers
PostIds == 1..MaxPosts
Ticks == 0..MaxTime
Workers == 1..DefaultWorkerCount
MsgIds == 1..MaxEvents

EventPostCreated == "post_created"
EventPostDeleted == "post_deleted"
EventUserFollowed == "user_followed"
EventUserUnfollowed == "user_unfollowed"

(***************************************************************************)
(* Generic helpers.                                                         *)
(***************************************************************************)
Min(a, b) == IF a < b THEN a ELSE b

Max(a, b) == IF a < b THEN b ELSE a

Range(s) == {s[i] : i \in 1..Len(s)}

Take(s, n) == SubSeq(s, 1, Min(n, Len(s)))

\* time.Now().Unix(): the whole second a tick lies in.
Unix(t) == t \div 2

\* EXTRACT(EPOCH FROM created_at)::bigint: the cast rounds to the nearest second.
EpochBigint(t) == (t + 1) \div 2

\* strconv.FormatInt(n, 10) as the sequence of decimal digits.
RECURSIVE FormatInt(_)
FormatInt(n) == IF n < 10 THEN <<n>> ELSE Append(FormatInt(n \div 10), n % 10)

\* Byte-wise comparison of two members, as Redis orders equal-score members.
MemberLess(a, b) ==
    LET x == FormatInt(a)
        y == FormatInt(b)
    IN  \/ \E i \in 1..Min(Len(x), Len(y)) :
              /\ \A j \in 1..(i - 1) : x[j] = y[j]
              /\ x[i] < y[i]
        \/ /\ Len(x) < Len(y)
           /\ \A j \in 1..Len(x) : x[j] = y[j]

(***************************************************************************)
(* Redis sorted set: a set of entries [post, score], one per member.        *)
(***************************************************************************)
Entry(p, s) == [post |-> p, score |-> s]

Members(z) == {e.post : e \in z}

\* Sorted-set order: by score, ties by member bytes.
ZLess(a, b) == a.score < b.score \/ (a.score = b.score /\ MemberLess(a.post, b.post))

\* 0-based rank from the lowest score.
ZRank(z, e) == Cardinality({x \in z : ZLess(x, e)})

\* ZADD key INCR score member: add to the score of an existing member.
ZAddIncr(z, p, s) ==
    {e \in z : e.post # p} \cup
    {Entry(p, s + (IF \E e \in z : e.post = p THEN (CHOOSE e \in z : e.post = p).score ELSE 0))}

\* ZADD key score member: insert, or overwrite the score of an existing member.
ZAdd(z, p, s) == {e \in z : e.post # p} \cup {Entry(p, s)}

RECURSIVE ZAddAll(_, _)
ZAddAll(z, batch) ==
    IF batch = <<>> THEN z
    ELSE ZAddAll(ZAdd(z, Head(batch).post, Head(batch).score), Tail(batch))

\* ZREM key member.
ZRem(z, p) == {e \in z : e.post # p}

\* ZREMRANGEBYRANK key start stop, with Redis' index normalisation.
ZRemRangeByRank(z, start, stop) ==
    LET n == Cardinality(z)
        st == IF start < 0 THEN Max(n + start, 0) ELSE start
        en0 == IF stop < 0 THEN n + stop ELSE stop
        en == Min(en0, n - 1)
    IN  IF st > en \/ st >= n THEN z
        ELSE {e \in z : ZRank(z, e) < st \/ ZRank(z, e) > en}

\* The entries from the highest score down.
ZRevSeq(z) ==
    [i \in 1..Cardinality(z) |->
        CHOOSE e \in z : Cardinality({x \in z : ZLess(e, x)}) = i - 1]

\* ZREVRANGE key 0 stop WITHSCORES.
ZRevRangeWithScores(z, stop) == Take(ZRevSeq(z), stop + 1)

\* ZREVRANGEBYSCORE key (max -inf WITHSCORES LIMIT 0 count.
ZRevRangeByScoreWithScores(z, max, count) ==
    Take(ZRevSeq({e \in z : e.score < max}), count)

(***************************************************************************)
(* A cache key: the sorted set and whether an expiry is set on it.  Redis   *)
(* deletes a sorted set that becomes empty, and its expiry with it.         *)
(***************************************************************************)
NoKey == [z |-> {}, ttl |-> FALSE]

KeyOf(z, ttl) == IF z = {} THEN NoKey ELSE [z |-> z, ttl |-> ttl]

\* pipe.ZAdd(ctx, key, redis.Z{Score: timestamp, Member: postID})
PipeZAdd(k, postID, timestamp) == KeyOf(ZAdd(k.z, postID, timestamp), k.ttl)

\* pipe.ZAdd(ctx, key, members...)
PipeZAddAll(k, batch) == KeyOf(ZAddAll(k.z, batch), k.ttl)

\* The trim from the other end: ZREMRANGEBYRANK key FeedCacheCap -1 removes the
\* entries of the highest ranks.
PipeTrimHighest(k) == KeyOf(ZRemRangeByRank(k.z, FeedCacheCap, -1), k.ttl)

\* pipe.ZRemRangeByRank(ctx, key, 0, -FeedCacheCap-1) that keeps one entry too many.
PipeTrimOffByOne(k) == KeyOf(ZRemRangeByRank(k.z, 0, -FeedCacheCap - 2), k.ttl)

\* pipe.ZRemRangeByRank(ctx, key, 0, -FeedCacheCap-1)
PipeTrim(k) == KeyOf(ZRemRangeByRank(k.z, 0, -FeedCacheCap - 1), k.ttl)

\* pipe.Expire(ctx, key, FeedCacheTTL): no effect on a key that does not exist.
PipeExpire(k) == KeyOf(k.z, TRUE)

\* RedisFeedCache.AddPost when its pipeline runs without interruption.
AddPost(k, postID, timestamp) == PipeExpire(PipeTrim(PipeZAdd(k, postID, timestamp)))

\* RedisFeedCache.RemovePost
RemovePost(k, postID) == KeyOf(ZRem(k.z, postID), k.ttl)

\* RedisFeedCache.WarmCache when its pipeline runs without interruption.
WarmCache(k, batch) ==
    IF Len(batch) = 0 THEN k ELSE PipeExpire(PipeTrim(PipeZAddAll(k, batch)))

\* RedisFeedCache.GetFeed: the entries read (post ids with their scores).
GetFeed(k, cursorScore, limit) ==
    IF cursorScore = -1
    THEN ZRevRangeWithScores(k.z, limit - 1)
    ELSE ZRevRangeByScoreWithScores(k.z, cursorScore, limit)

\* RedisFeedCache.Size
Size(k) == Cardinality(k.z)

\* RedisFeedCache.Exists
Exists(k) == k.z # {}

\* handleUserFollowed's loop over the followee's recent posts.
RECURSIVE AddPosts(_, _)
AddPosts(k, batch) ==
    IF batch = <<>> THEN k
    ELSE AddPosts(AddPost(k, Head(batch).post, Head(batch).score), Tail(batch))

\* Removal of a batch that never removes a key's last entry.
RECURSIVE RemovePostsKeepOne(_, _)
RemovePostsKeepOne(k, batch) ==
    IF batch = <<>> THEN k
    ELSE RemovePostsKeepOne(IF Members(k.z) = {Head(batch).post} THEN k
                            ELSE RemovePost(k, Head(batch).post), Tail(batch))

\* handleUserUnfollowed's loop over the followee's recent posts.
RECURSIVE RemovePosts(_, _)
RemovePosts(k, batch) ==
    IF batch = <<>> THEN k
    ELSE RemovePosts(RemovePost(k, Head(batch).post), Tail(batch))

(***************************************************************************)
(* Primary store: posts is the posts table (the id is the index), follows  *)
(* the follows table as a set of <<follower, followee>>.                    *)
(***************************************************************************)
Visible(P, p) == p \in 1..Len(P) /\ ~P[p].deleted

\* ORDER BY created_at DESC (posts of one tick: the later insert first).
PostNewer(P, a, b) ==
    P[a].created > P[b].created \/ (P[a].created = P[b].created /\ a > b)

NewestFirst(P, ids) ==
    [i \in 1..Cardinality(ids) |->
        CHOOSE p \in ids : Cardinality({q \in ids : PostNewer(P, q, p)}) = i - 1]

PostScores(P, ids, limit) ==
    LET s == Take(NewestFirst(P, ids), limit)
    IN  [i \in 1..Len(s) |-> Entry(s[i], EpochBigint(P[s[i]].created))]

\* postRepository.GetRecentPostsByUser
GetRecentPostsByUser(P, userID, limit) ==
    PostScores(P, {p \in 1..Len(P) : P[p].author = userID /\ ~P[p].deleted}, limit)

\* postRepository.GetFeedPostIDs
GetFeedPostIDs(P, followeeIDs, limit) ==
    PostScores(P, {p \in 1..Len(P) : P[p].author \in followeeIDs /\ ~P[p].deleted}, limit)

\* users.post_count as postRepository.Create and postRepository.Delete keep it:
\* for every user the number of their posts that are not deleted.
PostCounts(P) ==
    [u \in Users |-> Cardinality({p \in 1..Len(P) : P[p].author = u /\ ~P[p].deleted})]

\* users.follower_count and users.following_count as FollowService keeps them:
\* for every user the rows of follows that point to them and that leave them.
FollowerCounts(F) == [u \in Users |-> Cardinality({e \in F : e[2] = u})]

FollowingCounts(F) == [u \in Users |-> Cardinality({e \in F : e[1] = u})]

\* userRepository.IncrementFollowerCount and IncrementFollowingCount on column C:
\* UPDATE users SET c = c + delta WHERE id = userID.
IncrementFollowerCount(C, userID, delta) == [C EXCEPT ![userID] = @ + delta]

IncrementFollowingCount(C, userID, delta) == [C EXCEPT ![userID] = @ + delta]

\* PostRepository.GetByIDs without its pass over the input ids: the rows in the
\* order of the table.
GetByIDsTableOrder(P, postIDs) ==
    LET S == {p \in Range(postIDs) : Visible(P, p)}
    IN  [i \in 1..Cardinality(S) |-> CHOOSE m \in S : Cardinality({x \in S : x < m}) = i - 1]

\* postRepository.GetByIDs: the visible posts among postIDs, in the input order.
GetByIDs(P, postIDs) == SelectSeq(postIDs, LAMBDA p : Visible(P, p))

\* FollowRepository.GetFollowerIDs
GetFollowerIDs(F, userID) == {f \in Users : <<f, userID>> \in F}

\* FollowRepository.GetFolloweeIDs
GetFolloweeIDs(F, userID) == {g \in Users : <<userID, g>> \in F}

(***************************************************************************)
(* Events of the feed stream.  Fields an event type does not use are 0,     *)
(* as in the JSON payload.                                                  *)
(***************************************************************************)
NewPostCreatedEvent(postID, authorID, t) ==
    [type |-> EventPostCreated, ts |-> Unix(t), post |-> postID, author |-> authorID,
     follower |-> 0, followee |-> 0]

NewPostDeletedEvent(postID, authorID, t) ==
    [type |-> EventPostDeleted, ts |-> Unix(t), post |-> postID, author |-> authorID,
     follower |-> 0, followee |-> 0]

NewUserFollowedEvent(followerID, followeeID, t) ==
    [type |-> EventUserFollowed, ts |-> Unix(t), post |-> 0, author |-> 0,
     follower |-> followerID, followee |-> followeeID]

NewUserUnfollowedEvent(followerID, followeeID, t) ==
    [type |-> EventUserUnfollowed, ts |-> Unix(t), post |-> 0, author |-> 0,
     follower |-> followerID, followee |-> followeeID]

\* handlePostCreated without the fan-out to the followers.
handlePostCreatedAuthorOnly(c, F, ev) ==
    [u \in Users |-> IF u = ev.author THEN AddPost(c[u], ev.post, ev.ts) ELSE c[u]]

(***************************************************************************)
(* worker.Handler: the cache after an event is handled, given the primary   *)
(* store the handler reads.                                                 *)
(***************************************************************************)
\* handlePostCreated without the AddPost to the author's own feed.
handlePostCreatedFollowersOnly(c, F, ev) ==
    LET recipients == GetFollowerIDs(F, ev.author)
    IN  [u \in Users |-> IF u \in recipients THEN AddPost(c[u], ev.post, ev.ts) ELSE c[u]]

handlePostCreated(c, F, ev) ==
    LET recipients == GetFollowerIDs(F, ev.author) \cup {ev.author}
    IN  [u \in Users |-> IF u \in recipients THEN AddPost(c[u], ev.post, ev.ts) ELSE c[u]]

\* handlePostDeleted without the RemovePost from the author's own feed.
handlePostDeletedFollowersOnly(c, F, ev) ==
    LET recipients == GetFollowerIDs(F, ev.author)
    IN  [u \in Users |-> IF u \in recipients THEN RemovePost(c[u], ev.post) ELSE c[u]]

handlePostDeleted(c, F, ev) ==
    LET recipients == GetFollowerIDs(F, ev.author) \cup {ev.author}
    IN  [u \in Users |-> IF u \in recipients THEN RemovePost(c[u], ev.post) ELSE c[u]]

\* handleUserFollowed that backfills nothing.
handleUserFollowedNoBackfill(c, P, ev) == c

\* handleUserFollowed that scores every entry with the event's timestamp.
handleUserFollowedEventTime(c, P, ev) ==
    LET batch == GetRecentPostsByUser(P, ev.followee, backfillLimit)
    IN  [c EXCEPT ![ev.follower] =
            AddPosts(c[ev.follower], [i \in 1..Len(batch) |-> Entry(batch[i].post, ev.ts)])]

handleUserFollowed(c, P, ev) ==
    LET batch == GetRecentPostsByUser(P, ev.followee, backfillLimit)
    IN  [c EXCEPT ![ev.follower] = AddPosts(c[ev.follower], batch)]

\* handleUserUnfollowed that deletes the follower's whole key.
handleUserUnfollowedClearsFeed(c, P, ev) == [c EXCEPT ![ev.follower] = NoKey]

handleUserUnfollowed(c, P, ev) ==
    LET batch == GetRecentPostsByUser(P, ev.followee, removeLimit)
    IN  [c EXCEPT ![ev.follower] = RemovePosts(c[ev.follower], batch)]

\* NotificationService.CreateNotification on the table N: nobody is notified of
\* their own action.
CreateNotification(N, userID, actorID, notifType) ==
    IF userID = actorID
    THEN N
    ELSE N \cup {[user |-> userID, actor |-> actorID, type |-> notifType]}

\* The notifications table after HandleEvent.  handleUserFollowed returns when the
\* followee has no recent posts, and creates the follow notification after the
\* backfill otherwise; the other three handlers create none.
HandleEventNotifications(N, P, ev) ==
    IF ev.type = EventUserFollowed
       /\ GetRecentPostsByUser(P, ev.followee, backfillLimit) # <<>>
    THEN CreateNotification(N, ev.followee, ev.follower, "follow")
    ELSE N

HandleEvent(c, P, F, ev) ==
    CASE ev.type = EventPostCreated -> handlePostCreated(c, F, ev)
      [] ev.type = EventPostDeleted -> handlePostDeleted(c, F, ev)
      [] ev.type = EventUserFollowed -> handleUserFollowed(c, P, ev)
      [] ev.type = EventUserUnfollowed -> handleUserUnfollowed(c, P, ev)
      [] OTHER -> c

(***************************************************************************)
(* State.                                                                   *)
(*   now            the clock, in ticks                                     *)
(*   posts, follows the primary store                                       *)
(*   outbox         events of calls that have committed and not yet         *)
(*                  reached their Publish                                   *)
(*   stream         the entries of stream:feed (the message id is the index)*)
(*   lastDelivered  the consumer group's last-delivered id                  *)
(*   pel            per consumer, the delivered and unacknowledged ids      *)
(*   wpc, batch     per worker: where its goroutine is, the messages it has *)
(*                  read and not yet gone through                           *)
(*   herr           per worker: what HandleEvent returned for the first of  *)
(*                  them ("none" before the call, then "nil" or "error")    *)
(*   crashes        process crashes so far                                  *)
(*   cache          per user, the key feed:user:<id>                        *)
(*   pipe           per cache client, the pipeline it has in flight         *)
(*   sess           the pages a client has read by following nextCursor     *)
(*   postCount      per user, the column users.post_count                   *)
(*   followerCount  per user, the column users.follower_count               *)
(*   followingCount per user, the column users.following_count              *)
(*   tx             per database connection, the transaction it has open    *)
(*   notifications  the table notifications: the (user, actor, type) of its *)
(*                  rows                                                    *)
(***************************************************************************)
VARIABLES now, posts, follows, outbox, stream, lastDelivered, pel,
          wpc, batch, herr, crashes, cache, pipe, sess, postCount,
          followerCount, followingCount, tx, notifications

vars == <<now, posts, follows, outbox, stream, lastDelivered, pel,
          wpc, batch, herr, crashes, cache, pipe, sess, postCount,
          followerCount, followingCount, tx, notifications>>

dbVars == <<posts, follows, postCount, followerCount, followingCount, tx>>
storeVars == <<dbVars, notifications>>
streamVars == <<stream, lastDelivered, pel>>
workerVars == <<wpc, batch, herr, crashes>>

Clients == 1..NumClients

Conns == 1..NumConns

\* A connection with no transaction open.  Otherwise op is the service call, and pc
\* the statement the call executes next.
NoTx == [op |-> "none", follower |-> 0, followee |-> 0, pc |-> "idle"]

\* A client with no pipeline in flight.  Otherwise user is the key's owner, step the
\* number of commands Redis has executed, removed the reply of ZREMRANGEBYRANK.
Idle == [user |-> 0, step |-> 0, removed |-> 0]

\* feed is the viewer's feed in the primary store when the first page was read,
\* kept only when the system was at rest then (<<0>> otherwise).
NoSess == [viewer |-> 0, limit |-> 0, pages |-> <<>>, feed |-> <<0>>]

Init ==
    /\ now = 0
    /\ posts = <<>>
    /\ follows = {}
    /\ outbox = {}
    /\ stream = <<>>
    /\ lastDelivered = 0
    /\ pel = [w \in Workers |-> {}]
    /\ wpc = [w \in Workers |-> "pending"]
    /\ batch = [w \in Workers |-> <<>>]
    /\ herr = [w \in Workers |-> "none"]
    /\ crashes = 0
    /\ cache = [u \in Users |-> NoKey]
    /\ pipe = [c \in Clients |-> Idle]
    /\ sess = NoSess
    /\ postCount = PostCounts(posts)
    /\ followerCount = FollowerCounts(follows)
    /\ followingCount = FollowingCounts(follows)
    /\ tx = [c \in Conns |-> NoTx]
    /\ notifications = {}

\* The clock advances.
Tick ==
    /\ now < MaxTime
    /\ now' = now + 1
    /\ UNCHANGED <<storeVars, outbox, streamVars, workerVars, cache, pipe, sess>>

(***************************************************************************)
(* Write services.  Each call commits its transaction and then publishes;   *)
(* between the two it holds its event in outbox.                            *)
(***************************************************************************)
CanPublishMore == Len(stream) + Cardinality(outbox) < MaxEvents

\* PostService.Create that builds its event whether or not the transaction committed.
CreatePostAlwaysPublishes(userID) ==
    /\ Len(posts) < MaxPosts
    /\ CanPublishMore
    /\ outbox' = outbox \cup
           {[type |-> EventPostCreated, post |-> Len(posts) + 1, author |-> userID,
             follower |-> 0, followee |-> 0]}
    /\ \/ /\ posts' = Append(posts, [author |-> userID, created |-> now, deleted |-> FALSE])
          /\ postCount' = [postCount EXCEPT ![userID] = @ + 1]
       \/ UNCHANGED <<posts, postCount>>
    /\ UNCHANGED <<now, follows, followerCount, followingCount, tx, streamVars,
                   workerVars, cache, pipe, sess, notifications>>

\* PostService.Create up to the return of postRepository.Create.
CreatePost(userID) ==
    /\ Len(posts) < MaxPosts
    /\ CanPublishMore
    /\ \/ /\ posts' = Append(posts, [author |-> userID, created |-> now, deleted |-> FALSE])
          /\ postCount' = [postCount EXCEPT ![userID] = @ + 1]
          /\ outbox' = outbox \cup
                 {[type |-> EventPostCreated, post |-> Len(posts) + 1, author |-> userID,
                   follower |-> 0, followee |-> 0]}
       \/ UNCHANGED <<posts, postCount, outbox>>
    /\ UNCHANGED <<now, follows, followerCount, followingCount, tx, streamVars,
                   workerVars, cache, pipe, sess, notifications>>

\* postRepository.Delete whose UPDATE leaves user_id out of its WHERE clause.
PostDeleteAnyOwner(P, C, postID, userID) ==
    IF Visible(P, postID)
    THEN [err |-> "nil",
          posts |-> [P EXCEPT ![postID].deleted = TRUE],
          postCount |-> [C EXCEPT ![userID] = @ - 1]]
    ELSE [err |-> "ErrPostNotFound", posts |-> P, postCount |-> C]

\* postRepository.Delete: the error it returns and the posts table and the
\* post_count column it leaves.  rows is the UPDATE's RowsAffected, exists the
\* answer of the SELECT EXISTS that follows when it is 0; the deferred tx.Rollback
\* ends the transaction of a call that returns an error.
PostDelete(P, C, postID, userID) ==
    LET rows == IF /\ postID \in 1..Len(P)
                   /\ P[postID].author = userID
                   /\ ~P[postID].deleted
                THEN 1 ELSE 0
        exists == postID \in 1..Len(P) /\ ~P[postID].deleted
    IN  IF rows = 0
        THEN [err |-> IF exists THEN "ErrNotPostOwner" ELSE "ErrPostNotFound",
              posts |-> P, postCount |-> C]
        ELSE [err |-> "nil",
              posts |-> [P EXCEPT ![postID].deleted = TRUE],
              postCount |-> [C EXCEPT ![userID] = @ - 1]]

\* PostService.Delete: the result of postRepository.Delete and the events the
\* call hands to the publisher.
DeletePostCall(P, C, postID, userID) ==
    LET r == PostDelete(P, C, postID, userID)
    IN  [err |-> r.err, posts |-> r.posts, postCount |-> r.postCount,
         events |-> IF r.err # "nil" THEN {}
                    ELSE {[type |-> EventPostDeleted, post |-> postID, author |-> userID,
                           follower |-> 0, followee |-> 0]}]

\* PostService.Delete up to the return of postRepository.Delete.
DeletePost(postID, userID) ==
    /\ CanPublishMore
    /\ posts' = DeletePostCall(posts, postCount, postID, userID).posts
    /\ postCount' = DeletePostCall(posts, postCount, postID, userID).postCount
    /\ outbox' = outbox \cup DeletePostCall(posts, postCount, postID, userID).events
    /\ UNCHANGED <<now, follows, followerCount, followingCount, tx, streamVars,
                   workerVars, cache, pipe, sess, notifications>>

\* followRepository.Create as a plain INSERT: a row is always reported inserted.
FollowCreateAlwaysInserts(F, followerID, followeeID) ==
    [inserted |-> TRUE, follows |-> F \cup {<<followerID, followeeID>>}]

\* followRepository.Create: INSERT ... ON CONFLICT (follower_id, followee_id) DO
\* NOTHING, and whether a row was inserted.
FollowCreate(F, followerID, followeeID) ==
    [inserted |-> <<followerID, followeeID>> \notin F,
     follows |-> F \cup {<<followerID, followeeID>>}]

\* FollowService.Follow: the error it returns, the follows table it leaves (the
\* deferred tx.Rollback undoes what an erroring call did) and the events it
\* hands to the publisher.
FollowCall(F, followerID, followeeID) ==
    IF followerID = followeeID
    THEN [err |-> "ErrCannotFollowSelf", follows |-> F, events |-> {}]
    ELSE IF ~FollowCreate(F, followerID, followeeID).inserted
    THEN [err |-> "ErrAlreadyFollowing", follows |-> F, events |-> {}]
    ELSE [err |-> "nil",
          follows |-> FollowCreate(F, followerID, followeeID).follows,
          events |-> {[type |-> EventUserFollowed, post |-> 0, author |-> 0,
                       follower |-> followerID, followee |-> followeeID]}]

\* FollowService.Follow up to tx.Commit.
Follow(followerID, followeeID) ==
    /\ CanPublishMore
    /\ follows' = FollowCall(follows, followerID, followeeID).follows
    /\ outbox' = outbox \cup FollowCall(follows, followerID, followeeID).events
    /\ IF FollowCall(follows, followerID, followeeID).err = "nil"
       THEN /\ followerCount' = IncrementFollowerCount(followerCount, followeeID, 1)
            /\ followingCount' = IncrementFollowingCount(followingCount, followerID, 1)
       ELSE UNCHANGED <<followerCount, followingCount>>
    /\ UNCHANGED <<now, posts, postCount, tx, streamVars, workerVars, cache, pipe, sess,
                   notifications>>

\* followRepository.Delete that does not look at the rows affected.
FollowDeleteIgnoresMissing(F, followerID, followeeID) ==
    [err |-> "nil", follows |-> F \ {<<followerID, followeeID>>}]

\* followRepository.Delete: DELETE FROM follows WHERE follower_id = $1 AND
\* followee_id = $2, and ErrNotFollowing when no row was affected.
FollowDelete(F, followerID, followeeID) ==
    [err |-> IF <<followerID, followeeID>> \in F THEN "nil" ELSE "ErrNotFollowing",
     follows |-> F \ {<<followerID, followeeID>>}]

\* FollowService.Unfollow up to tx.Commit.
Unfollow(followerID, followeeID) ==
    /\ CanPublishMore
    /\ IF FollowDelete(follows, followerID, followeeID).err = "nil"
       THEN /\ follows' = FollowDelete(follows, followerID, followeeID).follows
            /\ followerCount' = IncrementFollowerCount(followerCount, followeeID, -1)
            /\ followingCount' = IncrementFollowingCount(followingCount, followerID, -1)
            /\ outbox' = outbox \cup
                   {[type |-> EventUserUnfollowed, post |-> 0, author |-> 0,
                     follower |-> followerID, followee |-> followeeID]}
       ELSE UNCHANGED <<follows, followerCount, followingCount, outbox>>
    /\ UNCHANGED <<now, posts, postCount, tx, streamVars, workerVars, cache, pipe, sess,
                   notifications>>

\* The event a committed call builds, stamped time.Now().Unix().
EventOf(o, t) ==
    CASE o.type = EventPostCreated -> NewPostCreatedEvent(o.post, o.author, t)
      [] o.type = EventPostDeleted -> NewPostDeletedEvent(o.post, o.author, t)
      [] o.type = EventUserFollowed -> NewUserFollowedEvent(o.follower, o.followee, t)
      [] OTHER -> NewUserUnfollowedEvent(o.follower, o.followee, t)

\* RedisPublisher.Publish (XADD) as called after the commit; a failure is only logged.
Publish(o) ==
    /\ o \in outbox
    /\ outbox' = outbox \ {o}
    /\ \/ stream' = Append(stream, EventOf(o, now))
       \/ UNCHANGED stream
    /\ UNCHANGED <<now, storeVars, lastDelivered, pel, workerVars, cache, pipe, sess>>

\* A stream entry whose data field is not the JSON of a FeedEvent.
Malformed ==
    [type |-> "malformed", ts |-> 0, post |-> 0, author |-> 0, follower |-> 0, followee |-> 0]

\* ParseFeedEvent returns no error.
ParseFeedEvent(values) == values # Malformed

\* The messages Read and ReadPending return of the entries XREADGROUP delivered:
\* an entry that does not parse is logged and skipped.
Parsed(S, ids) == SelectSeq(ids, LAMBDA m : ParseFeedEvent(S[m]))

\* A producer other than RedisPublisher appends an entry that is not a FeedEvent.
PublishMalformed ==
    /\ CanPublishMore
    /\ stream' = Append(stream, Malformed)
    /\ UNCHANGED <<now, storeVars, outbox, lastDelivered, pel, workerVars, cache, pipe, sess>>

(***************************************************************************)
(* Consumer group (queue.RedisConsumer) and worker.Manager.                 *)
(***************************************************************************)
\* The ids of a set in increasing order.
IdsAsc(S) ==
    [i \in 1..Cardinality(S) |-> CHOOSE m \in S : Cardinality({x \in S : x < m}) = i - 1]

\* RedisConsumer.ReadPending (XREADGROUP ... STREAMS stream 0) that asks for new messages.
ReadPendingNew(pending, count) == <<>>

\* RedisConsumer.ReadPending: XREADGROUP ... COUNT count STREAMS stream 0
ReadPending(pending, count) == Take(IdsAsc(pending), count)

\* RedisConsumer.Read whose XREADGROUP delivers from the start of the stream again.
ReadFromStart(last, length, count) == [i \in 1..Min(count, length) |-> i]

\* RedisConsumer.Read: XREADGROUP ... COUNT count STREAMS stream >
Read(last, length, count) == [i \in 1..Min(count, length - last) |-> last + i]

\* Manager.processPending that returns without reading the pending list.
ProcessPendingSkips(w) ==
    /\ wpc[w] = "pending"
    /\ batch[w] = <<>>
    /\ wpc' = [wpc EXCEPT ![w] = "steady"]
    /\ UNCHANGED <<now, storeVars, outbox, streamVars, batch, herr, crashes, cache, pipe,
                   sess>>

\* Manager.processPending: one round of its loop.
ProcessPending(w) ==
    /\ wpc[w] = "pending"
    /\ batch[w] = <<>>
    /\ LET messages == Parsed(stream, ReadPending(pel[w], DefaultBatchSize))
       IN  IF Len(messages) = 0
           THEN /\ wpc' = [wpc EXCEPT ![w] = "steady"]
                /\ UNCHANGED batch
           ELSE /\ batch' = [batch EXCEPT ![w] = messages]
                /\ UNCHANGED wpc
    /\ UNCHANGED <<now, storeVars, outbox, streamVars, herr, crashes, cache, pipe, sess>>

\* Manager.processMessages: a Read to which XREADGROUP delivers entries.
ProcessMessages(w) ==
    /\ wpc[w] = "steady"
    /\ batch[w] = <<>>
    /\ lastDelivered < Len(stream)
    /\ LET delivered == Read(lastDelivered, Len(stream), DefaultBatchSize)
       IN  /\ batch' = [batch EXCEPT ![w] = Parsed(stream, delivered)]
           /\ pel' = [pel EXCEPT ![w] = pel[w] \cup Range(delivered)]
           /\ lastDelivered' = lastDelivered + Len(delivered)
    /\ UNCHANGED <<now, storeVars, outbox, stream, wpc, herr, crashes, cache, pipe, sess>>

\* Manager.handleMessages, first half of an iteration: m.handler.HandleEvent.
\* The handler's primary-store lookup either answers or fails; it fails once m.ctx
\* is cancelled.
HandleMessage(w) ==
    /\ batch[w] # <<>>
    /\ herr[w] = "none"
    /\ \/ /\ wpc[w] # "stopping"
          /\ cache' = HandleEvent(cache, posts, follows, stream[Head(batch[w])])
          /\ notifications' =
                 HandleEventNotifications(notifications, posts, stream[Head(batch[w])])
          /\ herr' = [herr EXCEPT ![w] = "nil"]
       \/ /\ herr' = [herr EXCEPT ![w] = "error"]
          /\ UNCHANGED <<cache, notifications>>
    /\ UNCHANGED <<now, dbVars, outbox, streamVars, wpc, batch, crashes, pipe, sess>>

\* RedisConsumer.Ack: XACK removes the id from the group's pending entries.
Ack(pending, m) == [c \in Workers |-> pending[c] \ {m}]

\* RedisConsumer.Pending: XPENDING's count for the group.
Pending(pending) == Cardinality(UNION {pending[c] : c \in Workers})

\* Manager.handleMessages, second half of an iteration: m.consumer.Ack, whatever
\* the handler returned.  An XACK that fails is only logged; it fails once m.ctx is
\* cancelled.
AckMessage(w) ==
    /\ batch[w] # <<>>
    /\ herr[w] # "none"
    /\ \/ /\ wpc[w] # "stopping"
          /\ pel' = Ack(pel, Head(batch[w]))
       \/ UNCHANGED pel
    /\ batch' = [batch EXCEPT ![w] = Tail(batch[w])]
    /\ herr' = [herr EXCEPT ![w] = "none"]
    /\ UNCHANGED <<now, storeVars, outbox, stream, lastDelivered, wpc, crashes, cache, pipe,
                   sess>>

\* RedisFeedCache.AddPost returns an error: the keys the pipeline can have left,
\* by how many of its commands Redis ran before the failure (0 to all 3).
AddPostFailed(k, postID, timestamp, ran) ==
    CASE ran = 0 -> k
      [] ran = 1 -> PipeZAdd(k, postID, timestamp)
      [] ran = 2 -> PipeTrim(PipeZAdd(k, postID, timestamp))
      [] OTHER -> AddPost(k, postID, timestamp)

\* handlePostCreated whose loop returns the error of the first AddPost that fails.
RECURSIVE fanOutAborts(_, _, _, _, _)
fanOutAborts(c, recipients, ev, failed, ran) ==
    IF recipients = <<>> THEN [cache |-> c, err |-> "nil"]
    ELSE LET u == Head(recipients)
         IN  IF u \in failed
             THEN [cache |-> [c EXCEPT ![u] = AddPostFailed(c[u], ev.post, ev.ts, ran[u])],
                   err |-> "error"]
             ELSE fanOutAborts([c EXCEPT ![u] = AddPost(c[u], ev.post, ev.ts)],
                               Tail(recipients), ev, failed, ran)

\* handlePostCreated's calls of AddPost, for the followers in the order the lookup
\* returned them and then for the author, while AddPost fails for the users in
\* failed: a failure is logged and counted, and the function returns nil.
RECURSIVE fanOut(_, _, _, _, _)
fanOut(c, recipients, ev, failed, ran) ==
    IF recipients = <<>> THEN [cache |-> c, err |-> "nil"]
    ELSE LET u == Head(recipients)
         IN  fanOut([c EXCEPT ![u] = IF u \in failed
                                     THEN AddPostFailed(c[u], ev.post, ev.ts, ran[u])
                                     ELSE AddPost(c[u], ev.post, ev.ts)],
                    Tail(recipients), ev, failed, ran)

\* The users handlePostCreated calls AddPost for, in call order.
FanOutOrder(F, ev) == Append(IdsAsc(GetFollowerIDs(F, ev.author)), ev.author)

\* Manager.handleMessages, first half of an iteration, for a post_created event
\* during whose fan-out AddPost fails for some recipients.
HandleMessageAddFails(w) ==
    /\ batch[w] # <<>>
    /\ herr[w] = "none"
    /\ wpc[w] # "stopping"
    /\ LET ev == stream[Head(batch[w])]
       IN  /\ ev.type = EventPostCreated
           /\ \E failed \in SUBSET Range(FanOutOrder(follows, ev)), ran \in [Users -> 0..3] :
                 /\ failed # {}
                 /\ LET r == fanOut(cache, FanOutOrder(follows, ev), ev, failed, ran)
                    IN  /\ cache' = r.cache
                        /\ herr' = [herr EXCEPT ![w] = r.err]
    /\ UNCHANGED <<now, storeVars, outbox, streamVars, wpc, batch, crashes, pipe, sess>>

\* Manager.Stop: m.cancel() cancels the context every worker call is made with.
Stop ==
    /\ \E w \in Workers : wpc[w] \in {"pending", "steady"}
    /\ wpc' = [w \in Workers |->
                  IF wpc[w] \in {"pending", "steady"} THEN "stopping" ELSE wpc[w]]
    /\ UNCHANGED <<now, storeVars, outbox, streamVars, batch, herr, crashes, cache, pipe,
                   sess>>

\* Manager.runWorker returns: the read of the cancelled context fails
\* (processPending returns, processMessages returns) and m.ctx.Done() is selected.
RunWorkerReturns(w) ==
    /\ wpc[w] = "stopping"
    /\ batch[w] = <<>>
    /\ wpc' = [wpc EXCEPT ![w] = "stopped"]
    /\ UNCHANGED <<now, storeVars, outbox, streamVars, batch, herr, crashes, cache, pipe,
                   sess>>

\* The process dies: the goroutines and what they held are gone, and so are the
\* events of calls that had committed and not yet published.  The stream, the
\* pending lists and the cache are in Redis and stay.
Crash ==
    /\ crashes < MaxCrashes
    /\ \E w \in Workers : wpc[w] # "down"
    /\ crashes' = crashes + 1
    /\ wpc' = [w \in Workers |-> "down"]
    /\ batch' = [w \in Workers |-> <<>>]
    /\ herr' = [w \in Workers |-> "none"]
    /\ outbox' = {}
    /\ UNCHANGED <<now, storeVars, streamVars, cache, pipe, sess>>

\* Manager.Start in the replacement process: the workers get the same consumer names.
Start ==
    /\ \A w \in Workers : wpc[w] = "down"
    /\ wpc' = [w \in Workers |-> "pending"]
    /\ UNCHANGED <<now, storeVars, outbox, streamVars, batch, herr, crashes, cache, pipe, sess>>

\* A key's TTL runs out.
KeyExpires(u) ==
    /\ cache[u].ttl
    /\ cache' = [cache EXCEPT ![u] = NoKey]
    /\ UNCHANGED <<now, storeVars, outbox, streamVars, workerVars, pipe, sess>>

(***************************************************************************)
(* Feed read service (FeedService).                                         *)
(***************************************************************************)
\* GetFeed without its default and its maximum: the limit as the client sent it.
ClampLimitNone(limit) == limit

\* The limit GetFeed works with.
ClampLimit(limit) ==
    IF limit <= 0 THEN FeedDefaultLimit
    ELSE IF limit > FeedMaxLimit THEN FeedMaxLimit ELSE limit

\* FeedService.warmCache that leaves the viewer's own posts out.
warmCacheFolloweesOnly(k, P, F, userID) ==
    WarmCache(k, GetFeedPostIDs(P, GetFolloweeIDs(F, userID), CacheWarmLimit))

\* FeedService.warmCache: the key after the warm.
warmCache(k, P, F, userID) ==
    WarmCache(k, GetFeedPostIDs(P, GetFolloweeIDs(F, userID) \cup {userID}, CacheWarmLimit))

\* formatFeedCursor / parseFeedCursor: "<id>:<score>" as the pair it encodes.
formatFeedCursor(score, id) == <<id, score>>

parseFeedCursor(cursor) == cursor[2]

\* FeedService.hydratePosts without the deleted_at filter of GetByIDs.
hydrateUnfiltered(P, postIDs) == postIDs

\* FeedService.hydratePosts: the ids of the posts GetByIDs returns.
hydratePosts(P, postIDs) == GetByIDs(P, postIDs)

\* Which of GetFeed's cache calls fail: the Exists probe, WarmCache, the range read.
NoFailure == [exists |-> FALSE, warm |-> FALSE, range |-> FALSE]

CacheFailures == [exists : BOOLEAN, warm : BOOLEAN, range : BOOLEAN] \ {NoFailure}

\* FeedService.GetFeed, steps 1 and 2: a failed probe reads as "absent", a failed
\* warm is logged and the call goes on.
KeyAfterWarm(k, P, F, userID, f) ==
    LET exists == ~f.exists /\ Exists(k)
    IN  IF exists \/ f.warm THEN k ELSE warmCache(k, P, F, userID)

\* The key as GetFeed leaves it: the range read refreshes the TTL.
KeyAfterReadWith(k, P, F, userID, f) ==
    IF f.range THEN KeyAfterWarm(k, P, F, userID, f)
    ELSE PipeExpire(KeyAfterWarm(k, P, F, userID, f))

\* FeedService.GetFeed: the page returned.  cursor is <<>> when the client sent none;
\* nread is the number of entries the cache returned, before hydration; warmed says
\* that the call took the cache for absent; err that it returned an error, cacheErr
\* that the probe or the range read failed.
FeedPageWith(k, P, F, userID, cursor, limit, f) ==
    LET k1 == KeyAfterWarm(k, P, F, userID, f)
        cursorScore == IF cursor = <<>> THEN -1 ELSE parseFeedCursor(cursor)
        entries == IF f.range THEN <<>> ELSE GetFeed(k1, cursorScore, limit)
        postIDs == [i \in 1..Len(entries) |-> entries[i].post]
        page == hydratePosts(P, postIDs)
        hasMore == Len(entries) > 0 /\ Len(page) = limit
    IN  [posts |-> page,
         hasMore |-> hasMore,
         next |-> IF hasMore
                  THEN formatFeedCursor(entries[Len(entries)].score, page[Len(page)])
                  ELSE <<>>,
         nread |-> Len(entries),
         warmed |-> ~(~f.exists /\ Exists(k)),
         err |-> f.range,
         cacheErr |-> f.exists \/ f.range]

\* The key as GetFeed leaves it when the cache answers.
KeyAfterRead(k, P, F, userID) == KeyAfterReadWith(k, P, F, userID, NoFailure)

\* FeedService.GetFeed when the cache answers.
FeedPage(k, P, F, userID, cursor, limit) ==
    FeedPageWith(k, P, F, userID, cursor, limit, NoFailure)

\* The viewer's true feed: the visible posts of the viewer and their followees,
\* newest first.
TrueFeed(P, F, userID) ==
    NewestFirst(P, {p \in 1..Len(P) :
                      P[p].author \in GetFolloweeIDs(F, userID) \cup {userID} /\ ~P[p].deleted})

\* Nothing is on its way to the cache: every committed call has published, every
\* stream entry has been delivered, handled and acknowledged.
Quiescent ==
    /\ outbox = {}
    /\ lastDelivered = Len(stream)
    /\ \A w \in Workers : pel[w] = {} /\ batch[w] = <<>>

\* GET /feed without a cursor: the first page of a new session.  The model follows
\* one session.
ReadFeedFirst(userID, limit) ==
    /\ sess = NoSess
    /\ sess' = [viewer |-> userID, limit |-> ClampLimit(limit),
                pages |-> <<FeedPage(cache[userID], posts, follows, userID, <<>>,
                                     ClampLimit(limit))>>,
                feed |-> IF Quiescent THEN TrueFeed(posts, follows, userID) ELSE <<0>>]
    /\ cache' = [cache EXCEPT ![userID] = KeyAfterRead(cache[userID], posts, follows, userID)]
    /\ UNCHANGED <<now, storeVars, outbox, streamVars, workerVars, pipe>>

\* GET /feed without a cursor while cache calls fail as f says.
ReadFeedFirstCacheErr(userID, limit, f) ==
    /\ sess = NoSess
    /\ sess' = [viewer |-> userID, limit |-> ClampLimit(limit),
                pages |-> <<FeedPageWith(cache[userID], posts, follows, userID, <<>>,
                                         ClampLimit(limit), f)>>,
                feed |-> IF Quiescent THEN TrueFeed(posts, follows, userID) ELSE <<0>>]
    /\ cache' = [cache EXCEPT
                   ![userID] = KeyAfterReadWith(cache[userID], posts, follows, userID, f)]
    /\ UNCHANGED <<now, storeVars, outbox, streamVars, workerVars, pipe>>

\* GET /feed?cursor=<nextCursor of the page before>, same limit.
ReadFeedNext ==
    /\ sess.pages # <<>>
    /\ Len(sess.pages) < MaxPages
    /\ sess.pages[Len(sess.pages)].hasMore
    /\ LET userID == sess.viewer
           cursor == sess.pages[Len(sess.pages)].next
       IN  /\ sess' = [sess EXCEPT !.pages =
                          Append(@, FeedPage(cache[userID], posts, follows, userID, cursor,
                                             sess.limit))]
           /\ cache' = [cache EXCEPT
                          ![userID] = KeyAfterRead(cache[userID], posts, follows, userID)]
    /\ UNCHANGED <<now, storeVars, outbox, streamVars, workerVars, pipe>>


(***************************************************************************)
(* The cache's pipelines, command by command.  AddPost and WarmCache queue  *)
(* their three commands on c.client.Pipeline(), which sends them without    *)
(* MULTI/EXEC: Redis runs each command atomically and may run commands of   *)
(* other connections between them.                                          *)
(***************************************************************************)
CachePostIds == 1..MaxCachePosts

Scores == {Unix(t) : t \in Ticks} \cup {EpochBigint(t) : t \in Ticks}

Entries == {Entry(p, s) : p \in CachePostIds, s \in Scores}

\* The batches WarmCache is called with: distinct posts, at most CacheWarmLimit.
Batches ==
    {<<>>} \cup {<<e>> : e \in Entries}
           \cup {b \in {<<e, f>> : e \in Entries, f \in Entries} : b[1].post # b[2].post}

\* AddPost: the pipeline's ZADD runs.
AddPostZAdd(c, userID, postID, timestamp) ==
    /\ pipe[c] = Idle
    /\ cache' = [cache EXCEPT ![userID] = PipeZAdd(@, postID, timestamp)]
    /\ pipe' = [pipe EXCEPT ![c] = [user |-> userID, step |-> 1, removed |-> 0]]
    /\ UNCHANGED <<now, storeVars, outbox, streamVars, workerVars, sess>>

\* WarmCache: nothing for an empty batch, else the pipeline's ZADD runs.
WarmCacheZAdd(c, userID, posts_) ==
    /\ pipe[c] = Idle
    /\ IF Len(posts_) = 0
       THEN UNCHANGED <<cache, pipe>>
       ELSE /\ cache' = [cache EXCEPT ![userID] = PipeZAddAll(@, posts_)]
            /\ pipe' = [pipe EXCEPT ![c] = [user |-> userID, step |-> 1, removed |-> 0]]
    /\ UNCHANGED <<now, storeVars, outbox, streamVars, workerVars, sess>>

\* The pipeline's ZREMRANGEBYRANK runs.
PipelineTrim(c) ==
    /\ pipe[c].step = 1
    /\ LET userID == pipe[c].user
           k == PipeTrim(cache[userID])
       IN  /\ cache' = [cache EXCEPT ![userID] = k]
           /\ pipe' = [pipe EXCEPT ![c] = [user |-> userID, step |-> 2,
                                           removed |-> Size(cache[userID]) - Size(k)]]
    /\ UNCHANGED <<now, storeVars, outbox, streamVars, workerVars, sess>>

\* The pipeline's EXPIRE runs and Exec returns.
PipelineExpire(c) ==
    /\ pipe[c].step = 2
    /\ cache' = [cache EXCEPT ![pipe[c].user] = PipeExpire(@)]
    /\ pipe' = [pipe EXCEPT ![c] = Idle]
    /\ UNCHANGED <<now, storeVars, outbox, streamVars, workerVars, sess>>

\* RedisFeedCache.RemovePost as a call of its own.
CacheRemovePost(userID, postID) ==
    /\ cache' = [cache EXCEPT ![userID] = RemovePost(@, postID)]
    /\ UNCHANGED <<now, storeVars, outbox, streamVars, workerVars, pipe, sess>>

(***************************************************************************)
(* Specifications.                                                          *)
(***************************************************************************)
\* The write path and the workers: posts are created and deleted, their events
\* published, delivered, handled and acknowledged; the process may die and restart.
Next ==
    \/ \E u \in Users : CreatePost(u)
    \/ \E p \in PostIds : p <= Len(posts) /\ DeletePost(p, posts[p].author)
    \/ \E o \in outbox : Publish(o)
    \/ \E w \in Workers : ProcessPending(w)
    \/ \E w \in Workers : ProcessMessages(w)
    \/ \E w \in Workers : HandleMessage(w)
    \/ \E w \in Workers : AckMessage(w)
    \/ Crash
    \/ Start

Spec == Init /\ [][Next]_vars

\* The same, with the scheduling the runtime gives: a goroutine that can take a
\* step takes it, and a dead process is replaced.  The Redis that keeps answering
\* the worker's XREADGROUP does not refuse its XACK for ever.
Fairness ==
    /\ WF_vars(Start)
    /\ \A w \in Workers :
          /\ WF_vars(ProcessPending(w))
          /\ WF_vars(ProcessMessages(w))
          /\ WF_vars(HandleMessage(w))
          /\ WF_vars(AckMessage(w))
          /\ SF_vars(AckMessage(w) /\ pel' = Ack(pel, Head(batch[w])))

SpecLive == Spec /\ Fairness

\* The write path and the workers on a stream that can hold entries which do not
\* parse.
NextMalformed ==
    \/ \E u \in Users : CreatePost(u)
    \/ \E o \in outbox : Publish(o)
    \/ PublishMalformed
    \/ \E w \in Workers : ProcessPending(w)
    \/ \E w \in Workers : ProcessMessages(w)
    \/ \E w \in Workers : HandleMessage(w)
    \/ \E w \in Workers : AckMessage(w)
    \/ Crash
    \/ Start

SpecMalformed == Init /\ [][NextMalformed]_vars

\* The write path and the workers up to a graceful shutdown.
NextStop ==
    \/ \E u \in Users : CreatePost(u)
    \/ \E o \in outbox : Publish(o)
    \/ \E w \in Workers : ProcessPending(w)
    \/ \E w \in Workers : ProcessMessages(w)
    \/ \E w \in Workers : HandleMessage(w)
    \/ \E w \in Workers : AckMessage(w)
    \/ Stop
    \/ \E w \in Workers : RunWorkerReturns(w)

SpecStop == Init /\ [][NextStop]_vars

\* The whole event pipeline with both workers: follows and unfollows as well.
NextEvents ==
    \/ Tick
    \/ \E u \in Users : CreatePost(u)
    \/ \E p \in 1..(MaxPosts + 1), u \in Users : DeletePost(p, u)
    \/ \E f \in Users, g \in Users : Follow(f, g)
    \/ \E f \in Users, g \in Users : Unfollow(f, g)
    \/ \E o \in outbox : Publish(o)
    \/ \E w \in Workers : ProcessPending(w)
    \/ \E w \in Workers : ProcessMessages(w)
    \/ \E w \in Workers : HandleMessage(w)
    \/ \E w \in Workers : AckMessage(w)

SpecEvents == Init /\ [][NextEvents]_vars

\* The read path on top of the event pipeline, one worker running: user 1 reads
\* their feed and may follow user 2.
NextFeed ==
    \/ Tick
    \/ \E u \in Users : CreatePost(u)
    \/ \E p \in PostIds : p <= Len(posts) /\ DeletePost(p, posts[p].author)
    \/ Follow(1, 2)
    \/ \E o \in outbox : Publish(o)
    \/ ProcessPending(1)
    \/ ProcessMessages(1)
    \/ HandleMessage(1)
    \/ AckMessage(1)
    \/ \E u \in Users : KeyExpires(u)
    \/ \E l \in 0..(FeedMaxLimit + 1) : ReadFeedFirst(1, l)
    \/ ReadFeedNext

SpecFeed == Init /\ [][NextFeed]_vars

\* The handler alone: the primary store is any store the write services can leave
\* behind, the stream holds the events its history can have published, and the
\* handler is called with them in any order, any number of times.
PostRows == [author : Users, created : Ticks, deleted : BOOLEAN]

PostTables ==
    {t \in UNION {[1..n -> PostRows] : n \in 0..MaxPosts} :
        \A i \in 1..Len(t), j \in 1..Len(t) : i < j => t[i].created <= t[j].created}

FollowSets == SUBSET {e \in Users \X Users : e[1] # e[2]}

\* The ordered pairs of distinct users.
UserPairs ==
    SelectSeq([i \in 1..(NumUsers * NumUsers) |->
                  <<((i - 1) \div NumUsers) + 1, ((i - 1) % NumUsers) + 1>>],
              LAMBDA e : e[1] # e[2])

\* The events the history of store P can have published: for each post its
\* post_created, stamped at the tick T[p] of its Publish, and its post_deleted if it
\* is deleted; for each pair of users a user_followed and a user_unfollowed.
EventsFor(P, T) ==
    [p \in 1..Len(P) |-> NewPostCreatedEvent(p, P[p].author, T[p])]
    \o SelectSeq([p \in 1..Len(P) |-> NewPostDeletedEvent(p, P[p].author, MaxTime)],
                 LAMBDA e : P[e.post].deleted)
    \o [i \in 1..Len(UserPairs) |->
           NewUserFollowedEvent(UserPairs[i][1], UserPairs[i][2], MaxTime)]
    \o [i \in 1..Len(UserPairs) |->
           NewUserUnfollowedEvent(UserPairs[i][1], UserPairs[i][2], MaxTime)]

InitHandler ==
    /\ now = MaxTime
    /\ posts \in PostTables
    /\ follows \in FollowSets
    /\ outbox = {}
    /\ \E T \in [1..Len(posts) -> Ticks] :
          /\ \A p \in 1..Len(posts) : T[p] >= posts[p].created
          /\ stream = EventsFor(posts, T)
    /\ lastDelivered = 0
    /\ pel = [w \in Workers |-> {}]
    /\ wpc = [w \in Workers |-> "pending"]
    /\ batch = [w \in Workers |-> <<>>]
    /\ herr = [w \in Workers |-> "none"]
    /\ crashes = 0
    /\ cache = [u \in Users |-> NoKey]
    /\ pipe = [c \in Clients |-> Idle]
    /\ sess = NoSess
    /\ postCount = PostCounts(posts)
    /\ followerCount = FollowerCounts(follows)
    /\ followingCount = FollowingCounts(follows)
    /\ tx = [c \in Conns |-> NoTx]
    /\ notifications = {}

\* Handler.HandleEvent called with an event of the stream, its lookups answering.
HandleEventCall(ev) ==
    /\ cache' = HandleEvent(cache, posts, follows, ev)
    /\ notifications' = HandleEventNotifications(notifications, posts, ev)
    /\ UNCHANGED <<now, dbVars, outbox, streamVars, workerVars, pipe, sess>>

NextHandler == \E i \in 1..Len(stream) : HandleEventCall(stream[i])

SpecHandler == InitHandler /\ [][NextHandler]_vars

\* The fan-out handlers alone: the feeds are any feeds within the cap, the follow
\* edges any edges, and the stream holds one post_created or post_deleted event,
\* which is delivered and handled.
Feeds ==
    {NoKey} \cup
    {[z |-> z, ttl |-> TRUE] :
        z \in {y \in SUBSET Entries :
                  /\ y # {}
                  /\ Cardinality(y) <= FeedCacheCap
                  /\ \A d \in y, e \in y : d.post = e.post => d = e}}

FanoutEvents ==
    {NewPostCreatedEvent(p, a, t) : p \in CachePostIds, a \in Users, t \in Ticks}
        \cup {NewPostDeletedEvent(p, a, t) : p \in CachePostIds, a \in Users, t \in Ticks}

InitFanout ==
    /\ now = MaxTime
    /\ posts = <<>>
    /\ follows \in FollowSets
    /\ outbox = {}
    /\ stream \in {<<ev>> : ev \in FanoutEvents}
    /\ lastDelivered = 0
    /\ pel = [w \in Workers |-> {}]
    /\ wpc = [w \in Workers |-> "steady"]
    /\ batch = [w \in Workers |-> <<>>]
    /\ herr = [w \in Workers |-> "none"]
    /\ crashes = 0
    /\ cache \in [Users -> Feeds]
    /\ pipe = [c \in Clients |-> Idle]
    /\ sess = NoSess
    /\ postCount = PostCounts(posts)
    /\ followerCount = FollowerCounts(follows)
    /\ followingCount = FollowingCounts(follows)
    /\ tx = [c \in Conns |-> NoTx]
    /\ notifications = {}

\* The next event of the stream is delivered, handled without error and acked.
HandleNext ==
    /\ lastDelivered < Len(stream)
    /\ cache' = HandleEvent(cache, posts, follows, stream[lastDelivered + 1])
    /\ notifications' =
           HandleEventNotifications(notifications, posts, stream[lastDelivered + 1])
    /\ lastDelivered' = lastDelivered + 1
    /\ UNCHANGED <<now, dbVars, outbox, stream, pel, workerVars, pipe, sess>>

NextFanout == HandleNext

SpecFanout == InitFanout /\ [][NextFanout]_vars

\* The fan-out with both workers, from delivery to acknowledgement, AddPost
\* failing for some recipients.
NextFanoutFails ==
    \/ \E w \in Workers : ProcessMessages(w)
    \/ \E w \in Workers : HandleMessage(w)
    \/ \E w \in Workers : HandleMessageAddFails(w)
    \/ \E w \in Workers : AckMessage(w)

SpecFanoutFails == InitFanout /\ [][NextFanoutFails]_vars

\* The follow handlers alone: the primary store is any store of up to MaxCachePosts
\* posts, the stream holds one user_followed or user_unfollowed event, and the
\* follower's feed is any feed within the cap over entries the insert paths can
\* have written for posts of the store.  The event is delivered and handled, and
\* the follower then reads the newest page.
FollowPostTables ==
    {t \in UNION {[1..n -> PostRows] : n \in 0..MaxCachePosts} :
        \A i \in 1..Len(t), j \in 1..Len(t) : i < j => t[i].created <= t[j].created}

\* The scores the insert paths can give post p of store P: the event's
\* time.Now().Unix() at or after the commit, or the store's projection.
ScoresOf(P, p) ==
    {Unix(t) : t \in {x \in Ticks : x >= P[p].created}} \cup {EpochBigint(P[p].created)}

FeedsOver(P) ==
    {k \in Feeds : \A e \in k.z : e.post \in 1..Len(P) /\ e.score \in ScoresOf(P, e.post)}

FollowEvents ==
    {NewUserFollowedEvent(UserPairs[i][1], UserPairs[i][2], MaxTime) : i \in 1..Len(UserPairs)}
        \cup {NewUserUnfollowedEvent(UserPairs[i][1], UserPairs[i][2], MaxTime) :
                 i \in 1..Len(UserPairs)}

InitFollow ==
    /\ now = MaxTime
    /\ posts \in FollowPostTables
    /\ outbox = {}
    /\ stream \in {<<ev>> : ev \in FollowEvents}
    /\ follows \in {{}, {<<stream[1].follower, stream[1].followee>>}}
    /\ lastDelivered = 0
    /\ pel = [w \in Workers |-> {}]
    /\ wpc = [w \in Workers |-> "steady"]
    /\ batch = [w \in Workers |-> <<>>]
    /\ herr = [w \in Workers |-> "none"]
    /\ crashes = 0
    /\ \E k \in FeedsOver(posts) :
          cache = [u \in Users |-> IF u = stream[1].follower THEN k ELSE NoKey]
    /\ pipe = [c \in Clients |-> Idle]
    /\ sess = NoSess
    /\ postCount = PostCounts(posts)
    /\ followerCount = FollowerCounts(follows)
    /\ followingCount = FollowingCounts(follows)
    /\ tx = [c \in Conns |-> NoTx]
    /\ notifications = {}

\* The follower of the event that was handled reads the newest page.
FollowerReads(limit) ==
    /\ lastDelivered = Len(stream)
    /\ ReadFeedFirst(stream[1].follower, limit)

NextFollow ==
    \/ HandleNext
    \/ \E l \in 1..FeedMaxLimit : FollowerReads(l)

SpecFollow == InitFollow /\ [][NextFollow]_vars

\* The journey of TestFullWorkflow as two users of the model see it.  Alice is
\* user 1 and posts 1, 2, 3 are p1, p2, p3; user 2 is Bob or Charlie, and the calls
\* of the third, which touch neither a key nor a row of these two, are left out.
\* A call is written as the event record its service builds.
Alice == 1

JourneyCalls(bob, charlie) ==
    SelectSeq(
        <<[type |-> EventUserFollowed, post |-> 0, author |-> 0,
           follower |-> bob, followee |-> Alice],
          [type |-> EventPostCreated, post |-> 1, author |-> Alice,
           follower |-> 0, followee |-> 0],
          [type |-> EventPostCreated, post |-> 2, author |-> Alice,
           follower |-> 0, followee |-> 0],
          [type |-> EventUserFollowed, post |-> 0, author |-> 0,
           follower |-> charlie, followee |-> Alice],
          [type |-> EventPostCreated, post |-> 3, author |-> Alice,
           follower |-> 0, followee |-> 0],
          [type |-> EventUserUnfollowed, post |-> 0, author |-> 0,
           follower |-> bob, followee |-> Alice],
          [type |-> EventPostDeleted, post |-> 1, author |-> Alice,
           follower |-> 0, followee |-> 0]>>,
        LAMBDA o : o.follower \in Users \cup {0})

Journeys == {JourneyCalls(2, NumUsers + 1), JourneyCalls(NumUsers + 1, 2)}

\* The events published so far are those of the first calls of journey s.
Underway(s) ==
    /\ Len(stream) <= Len(s)
    /\ \A i \in 1..Len(stream) : [stream[i] EXCEPT !.ts = 0] = EventOf(s[i], 0)

\* The next call of one of the call sequences S, a second after the one before:
\* the service commits its transaction and publishes its event.
NextCallOf(S) ==
    /\ \E s \in S :
          /\ Underway(s)
          /\ Len(stream) < Len(s)
          /\ LET o == s[Len(stream) + 1]
             IN  /\ posts' =
                        CASE o.type = EventPostCreated ->
                                 Append(posts, [author |-> o.author, created |-> now,
                                                deleted |-> FALSE])
                          [] o.type = EventPostDeleted ->
                                 [posts EXCEPT ![o.post].deleted = TRUE]
                          [] OTHER -> posts
                 /\ postCount' =
                        CASE o.type = EventPostCreated ->
                                 [postCount EXCEPT ![o.author] = @ + 1]
                          [] o.type = EventPostDeleted ->
                                 [postCount EXCEPT ![o.author] = @ - 1]
                          [] OTHER -> postCount
                 /\ follows' =
                        CASE o.type = EventUserFollowed ->
                                 follows \cup {<<o.follower, o.followee>>}
                          [] o.type = EventUserUnfollowed ->
                                 follows \ {<<o.follower, o.followee>>}
                          [] OTHER -> follows
                 /\ followerCount' =
                        CASE o.type = EventUserFollowed ->
                                 IncrementFollowerCount(followerCount, o.followee, 1)
                          [] o.type = EventUserUnfollowed ->
                                 IncrementFollowerCount(followerCount, o.followee, -1)
                          [] OTHER -> followerCount
                 /\ followingCount' =
                        CASE o.type = EventUserFollowed ->
                                 IncrementFollowingCount(followingCount, o.follower, 1)
                          [] o.type = EventUserUnfollowed ->
                                 IncrementFollowingCount(followingCount, o.follower, -1)
                          [] OTHER -> followingCount
                 /\ stream' = Append(stream, EventOf(o, now))
    /\ now' = now + 2
    /\ UNCHANGED <<outbox, tx, lastDelivered, pel, workerVars, cache, pipe, sess, notifications>>

\* The next call of the journey.
JourneyCall == NextCallOf(Journeys)

\* Manager.handleMessages, one iteration in which the handler and the XACK succeed.
handleMessages(w) ==
    /\ batch[w] # <<>>
    /\ wpc[w] \in {"pending", "steady"}
    /\ cache' = HandleEvent(cache, posts, follows, stream[Head(batch[w])])
    /\ notifications' =
           HandleEventNotifications(notifications, posts, stream[Head(batch[w])])
    /\ pel' = Ack(pel, Head(batch[w]))
    /\ batch' = [batch EXCEPT ![w] = Tail(batch[w])]
    /\ UNCHANGED <<now, dbVars, outbox, stream, lastDelivered, wpc, herr, crashes, pipe,
                   sess>>

\* Manager.Start with cfg.WorkerCount workers, one or the default two.
InitJourney ==
    /\ now = 0
    /\ posts = <<>>
    /\ follows = {}
    /\ outbox = {}
    /\ stream = <<>>
    /\ lastDelivered = 0
    /\ pel = [w \in Workers |-> {}]
    /\ \E n \in 1..DefaultWorkerCount :
          wpc = [w \in Workers |-> IF w <= n THEN "pending" ELSE "down"]
    /\ batch = [w \in Workers |-> <<>>]
    /\ herr = [w \in Workers |-> "none"]
    /\ crashes = 0
    /\ cache = [u \in Users |-> NoKey]
    /\ pipe = [c \in Clients |-> Idle]
    /\ sess = NoSess
    /\ postCount = PostCounts(posts)
    /\ followerCount = FollowerCounts(follows)
    /\ followingCount = FollowingCounts(follows)
    /\ tx = [c \in Conns |-> NoTx]
    /\ notifications = {}

NextJourney ==
    \/ JourneyCall
    \/ \E w \in Workers : ProcessPending(w)
    \/ \E w \in Workers : ProcessMessages(w)
    \/ \E w \in Workers : handleMessages(w)

SpecJourney == InitJourney /\ [][NextJourney]_vars

\* The read service over a store at rest: the feeds are whatever the handlers have
\* made of them, keys expire, and the cache calls of a read may fail.
NextRead ==
    \/ \E i \in 1..Len(stream) : HandleEventCall(stream[i])
    \/ \E u \in Users : KeyExpires(u)
    \/ \E u \in Users, l \in 1..FeedMaxLimit : ReadFeedFirst(u, l)
    \/ \E u \in Users, l \in 1..FeedMaxLimit, f \in CacheFailures :
          ReadFeedFirstCacheErr(u, l, f)
    \/ ReadFeedNext

SpecRead == InitHandler /\ [][NextRead]_vars

\* FeedService.GetFeed under a context the client cancels: the key as the call
\* leaves it.  at is the number of cache calls that had returned when the context
\* was cancelled (the Exists probe, the warm, the range read, the EXPIRE that
\* follows it); every call after that returns the context's error, which the probe
\* and the warm log and the range read and the hydration return to the client.
KeyAfterCancelledRead(k, P, F, userID, at) ==
    CASE at <= 1 -> k
      [] at \in {2, 3} -> KeyAfterWarm(k, P, F, userID, NoFailure)
      [] OTHER -> KeyAfterReadWith(k, P, F, userID, NoFailure)

CancelPoints == 0..4

\* GET /feed without a cursor, cancelled by the client: the client receives no page.
ReadFeedCancelled(userID, limit, at) ==
    /\ sess = NoSess
    /\ cache' = [cache EXCEPT
                   ![userID] = KeyAfterCancelledRead(cache[userID], posts, follows, userID, at)]
    /\ UNCHANGED <<now, storeVars, outbox, streamVars, workerVars, pipe, sess>>

\* The read service over a store at rest, with clients that cancel their reads.
NextCancel ==
    \/ \E i \in 1..Len(stream) : HandleEventCall(stream[i])
    \/ \E u \in Users : KeyExpires(u)
    \/ \E u \in Users, l \in 1..FeedMaxLimit : ReadFeedFirst(u, l)
    \/ ReadFeedNext
    \/ \E u \in Users, l \in 1..FeedMaxLimit, at \in CancelPoints : ReadFeedCancelled(u, l, at)

SpecCancel == InitHandler /\ [][NextCancel]_vars

\* The cursor as the text of the query parameter: a sequence of characters.  The
\* model's texts are the non-empty sequences of up to MaxCursorLen characters over
\* CursorChars (an empty parameter is "no cursor" to FeedHandler.GetFeed).
MaxCursorLen == 5

CursorChars == {"0", "1", ":", ".", " ", "e", "-"}

DigitChars == {"0", "1"}

CursorTexts == UNION {[1..n -> CursorChars] : n \in 1..MaxCursorLen}

IsDigits(s) == Len(s) > 0 /\ \A i \in 1..Len(s) : s[i] \in DigitChars

\* Position of the first c in s, or Len(s) + 1.
IndexOf(s, c) ==
    IF \E i \in 1..Len(s) : s[i] = c
    THEN CHOOSE i \in 1..Len(s) : s[i] = c /\ \A j \in 1..(i - 1) : s[j] # c
    ELSE Len(s) + 1

\* strings.Split(s, sep) for a separator of one character.
RECURSIVE Split(_, _)
Split(s, sep) ==
    LET i == IndexOf(s, sep)
    IN  IF i > Len(s) THEN <<s>>
        ELSE <<SubSeq(s, 1, i - 1)>> \o Split(SubSeq(s, i + 1, Len(s)), sep)

Unsigned(s) == IF Len(s) > 0 /\ s[1] = "-" THEN Tail(s) ELSE s

\* strconv.ParseInt(s, 10, 64) returns no error: an optional sign and digits.
ParseIntOk(s) == IsDigits(Unsigned(s))

\* strconv.ParseFloat(s, 64) returns no error: an optional sign, a mantissa of
\* digits with at most one point and at least one digit, and an optional exponent
\* of an optional sign and digits.
ParseFloatOk(s) ==
    LET u == Unsigned(s)
        e == IndexOf(u, "e")
        mantissa == SubSeq(u, 1, e - 1)
        exponent == SubSeq(u, e + 1, Len(u))
        p == IndexOf(mantissa, ".")
        whole == SubSeq(mantissa, 1, p - 1)
        frac == SubSeq(mantissa, p + 1, Len(mantissa))
    IN  /\ \A i \in 1..Len(whole) : whole[i] \in DigitChars
        /\ \A i \in 1..Len(frac) : frac[i] \in DigitChars
        /\ Len(whole) + Len(frac) > 0
        /\ e <= Len(u) => IsDigits(Unsigned(exponent))

\* parseFeedCursor on the text of the cursor: the error it returns.
parseFeedCursorErr(cursor) ==
    LET parts == Split(cursor, ":")
    IN  IF Len(parts) # 2 THEN "invalid cursor format, expected id:timestamp"
        ELSE IF ~ParseIntOk(parts[1]) THEN "invalid post id in cursor"
        ELSE IF ~ParseFloatOk(parts[2]) THEN "invalid timestamp in cursor"
        ELSE "nil"

\* FeedHandler.GetFeed: the response to GET /feed?cursor=<cursor>.  Every error of
\* FeedService.GetFeed, the cursor's included, is answered WriteInternalError.
GetFeedResponse(cursor) ==
    IF parseFeedCursorErr(cursor) # "nil"
    THEN [err |-> parseFeedCursorErr(cursor), status |-> "InternalError"]
    ELSE [err |-> "nil", status |-> "OK"]

\* A client about to send GET /feed with a cursor text of its own making.
InitCursor ==
    /\ now = 0
    /\ posts = <<>>
    /\ follows = {}
    /\ outbox = {}
    /\ stream = <<>>
    /\ lastDelivered = 0
    /\ pel = [w \in Workers |-> {}]
    /\ wpc = [w \in Workers |-> "pending"]
    /\ batch = [w \in Workers |-> <<>>]
    /\ herr = [w \in Workers |-> "none"]
    /\ crashes = 0
    /\ cache = [u \in Users |-> NoKey]
    /\ pipe = [c \in Clients |-> Idle]
    /\ \E text \in CursorTexts :
          sess = [viewer |-> 1, limit |-> FeedDefaultLimit, pages |-> <<>>, feed |-> <<0>>,
                  cursor |-> text]
    /\ postCount = PostCounts(posts)
    /\ followerCount = FollowerCounts(follows)
    /\ followingCount = FollowingCounts(follows)
    /\ tx = [c \in Conns |-> NoTx]
    /\ notifications = {}

\* GET /feed?cursor=<text> is answered.
ReadFeedCursorText ==
    /\ sess.pages = <<>>
    /\ sess' = [sess EXCEPT !.pages = <<GetFeedResponse(sess.cursor)>>]
    /\ UNCHANGED <<now, storeVars, outbox, streamVars, workerVars, cache, pipe>>

NextCursor == ReadFeedCursorText

SpecCursor == InitCursor /\ [][NextCursor]_vars

\* Expiry between writes, nothing failing: the calls that made the store have all
\* committed and published (each post's event in the second of its commit, then
\* the deletions, then the follows), one worker handles the stream in order, keys
\* expire at any moment, and users read the newest page.
PublishedEvents(P, F) ==
    [p \in 1..Len(P) |-> NewPostCreatedEvent(p, P[p].author, P[p].created)]
    \o SelectSeq([p \in 1..Len(P) |-> NewPostDeletedEvent(p, P[p].author, MaxTime)],
                 LAMBDA e : P[e.post].deleted)
    \o SelectSeq([i \in 1..Len(UserPairs) |->
                     NewUserFollowedEvent(UserPairs[i][1], UserPairs[i][2], MaxTime)],
                 LAMBDA e : <<e.follower, e.followee>> \in F)

InitExpiry ==
    /\ now = MaxTime
    /\ posts \in PostTables
    /\ follows \in FollowSets
    /\ outbox = {}
    /\ stream = PublishedEvents(posts, follows)
    /\ lastDelivered = 0
    /\ pel = [w \in Workers |-> {}]
    /\ wpc = [w \in Workers |-> "steady"]
    /\ batch = [w \in Workers |-> <<>>]
    /\ herr = [w \in Workers |-> "none"]
    /\ crashes = 0
    /\ cache = [u \in Users |-> NoKey]
    /\ pipe = [c \in Clients |-> Idle]
    /\ sess = NoSess
    /\ postCount = PostCounts(posts)
    /\ followerCount = FollowerCounts(follows)
    /\ followingCount = FollowingCounts(follows)
    /\ tx = [c \in Conns |-> NoTx]
    /\ notifications = {}

NextExpiry ==
    \/ HandleNext
    \/ \E u \in Users : KeyExpires(u)
    \/ \E u \in Users, l \in 1..FeedMaxLimit : ReadFeedFirst(u, l)

SpecExpiry == InitExpiry /\ [][NextExpiry]_vars

\* Follow and Unfollow racing with posts: user 2 follows and then unfollows user 1,
\* who creates a post before, between or after the two calls, or one before and one
\* after.  Every call commits and publishes, one or two workers handle the events
\* without failure, and user 2 may read the newest page at any moment.
FollowThenUnfollow ==
    <<[type |-> EventUserFollowed, post |-> 0, author |-> 0, follower |-> 2, followee |-> 1],
      [type |-> EventUserUnfollowed, post |-> 0, author |-> 0, follower |-> 2, followee |-> 1]>>

PostBy1(p) ==
    [type |-> EventPostCreated, post |-> p, author |-> 1, follower |-> 0, followee |-> 0]

UnfollowRaces ==
    {<<PostBy1(1)>> \o FollowThenUnfollow,
     <<FollowThenUnfollow[1], PostBy1(1), FollowThenUnfollow[2]>>,
     FollowThenUnfollow \o <<PostBy1(1)>>,
     <<PostBy1(1), FollowThenUnfollow[1], FollowThenUnfollow[2], PostBy1(2)>>,
     <<PostBy1(1), FollowThenUnfollow[1], PostBy1(2), FollowThenUnfollow[2]>>}

NextUnfollowRace ==
    \/ NextCallOf(UnfollowRaces)
    \/ \E w \in Workers : ProcessPending(w)
    \/ \E w \in Workers : ProcessMessages(w)
    \/ \E w \in Workers : handleMessages(w)
    \/ \E l \in 1..FeedMaxLimit : ReadFeedFirst(2, l)

SpecUnfollowRace == InitJourney /\ [][NextUnfollowRace]_vars

\* Follow racing with CreatePost: user 2 follows user 1 before, between or after
\* the posts user 1 creates.  Every call commits and publishes, and one or two
\* workers handle the events without failure.
FollowPostRaces ==
    {<<FollowThenUnfollow[1], PostBy1(1)>>,
     <<PostBy1(1), FollowThenUnfollow[1]>>,
     <<FollowThenUnfollow[1], PostBy1(1), PostBy1(2)>>,
     <<PostBy1(1), FollowThenUnfollow[1], PostBy1(2)>>,
     <<PostBy1(1), PostBy1(2), FollowThenUnfollow[1]>>}

NextFollowPostRace ==
    \/ NextCallOf(FollowPostRaces)
    \/ \E w \in Workers : ProcessPending(w)
    \/ \E w \in Workers : ProcessMessages(w)
    \/ \E w \in Workers : handleMessages(w)

SpecFollowPostRace == InitJourney /\ [][NextFollowPostRace]_vars

\* Follow and Unfollow statement by statement, on two connections at once.  The
\* database runs the transactions at READ COMMITTED: a statement sees what is
\* committed, takes a lock on each row it writes and keeps it until the
\* transaction ends, and waits for a lock another transaction holds.  follows,
\* followerCount and followingCount are the committed tables; what a transaction
\* has written and not committed follows from its pc.
TxWroteRow(c) == tx[c].pc \in {"incFollower", "incFollowing", "commit"}

\* Connection c holds the lock on the row of follows with key <<f, g>>.
HoldsKey(c, f, g) ==
    TxWroteRow(c) /\ tx[c].follower = f /\ tx[c].followee = g

\* Connection c holds the lock on the row of users with id u.
HoldsUser(c, u) ==
    \/ tx[c].pc \in {"incFollowing", "commit"} /\ tx[c].followee = u
    \/ tx[c].pc = "commit" /\ tx[c].follower = u

\* FollowService.Follow up to BeginTxx.
BeginFollow(c, followerID, followeeID) ==
    /\ tx[c] = NoTx
    /\ followerID # followeeID
    /\ tx' = [tx EXCEPT ![c] = [op |-> "Follow", follower |-> followerID,
                                followee |-> followeeID, pc |-> "create"]]
    /\ UNCHANGED <<now, posts, postCount, follows, followerCount, followingCount,
                   outbox, streamVars, workerVars, cache, pipe, sess, notifications>>

\* FollowService.Unfollow up to BeginTxx.
BeginUnfollow(c, followerID, followeeID) ==
    /\ tx[c] = NoTx
    /\ tx' = [tx EXCEPT ![c] = [op |-> "Unfollow", follower |-> followerID,
                                followee |-> followeeID, pc |-> "delete"]]
    /\ UNCHANGED <<now, posts, postCount, follows, followerCount, followingCount,
                   outbox, streamVars, workerVars, cache, pipe, sess, notifications>>

\* followRepository.Create in the transaction of c.  The INSERT waits while another
\* transaction has inserted or deleted the row of its key and not ended; a call
\* that inserted nothing returns ErrAlreadyFollowing and rolls back.
TxCreate(c) ==
    /\ tx[c].pc = "create"
    /\ \A d \in Conns \ {c} : ~HoldsKey(d, tx[c].follower, tx[c].followee)
    /\ tx' = [tx EXCEPT ![c] =
                 IF FollowCreate(follows, tx[c].follower, tx[c].followee).inserted
                 THEN [@ EXCEPT !.pc = "incFollower"]
                 ELSE NoTx]
    /\ UNCHANGED <<now, posts, postCount, follows, followerCount, followingCount,
                   outbox, streamVars, workerVars, cache, pipe, sess, notifications>>

\* followRepository.Delete in the transaction of c.  The DELETE waits while another
\* transaction has deleted the row and not ended, and does not see a row another
\* transaction has inserted and not committed; a call that deleted nothing returns
\* ErrNotFollowing and rolls back.
TxDelete(c) ==
    /\ tx[c].pc = "delete"
    /\ \A d \in Conns \ {c} :
          ~(HoldsKey(d, tx[c].follower, tx[c].followee) /\ tx[d].op = "Unfollow")
    /\ tx' = [tx EXCEPT ![c] =
                 IF FollowDelete(follows, tx[c].follower, tx[c].followee).err = "nil"
                 THEN [@ EXCEPT !.pc = "incFollower"]
                 ELSE NoTx]
    /\ UNCHANGED <<now, posts, postCount, follows, followerCount, followingCount,
                   outbox, streamVars, workerVars, cache, pipe, sess, notifications>>

\* userRepository.IncrementFollowerCount(followeeID, 1 or -1) in the transaction of c.
TxIncrementFollowerCount(c) ==
    /\ tx[c].pc = "incFollower"
    /\ \A d \in Conns \ {c} : ~HoldsUser(d, tx[c].followee)
    /\ tx' = [tx EXCEPT ![c].pc = "incFollowing"]
    /\ UNCHANGED <<now, posts, postCount, follows, followerCount, followingCount,
                   outbox, streamVars, workerVars, cache, pipe, sess, notifications>>

\* userRepository.IncrementFollowingCount(followerID, 1 or -1) in the transaction of c.
TxIncrementFollowingCount(c) ==
    /\ tx[c].pc = "incFollowing"
    /\ \A d \in Conns \ {c} : ~HoldsUser(d, tx[c].follower)
    /\ tx' = [tx EXCEPT ![c].pc = "commit"]
    /\ UNCHANGED <<now, posts, postCount, follows, followerCount, followingCount,
                   outbox, streamVars, workerVars, cache, pipe, sess, notifications>>

\* tx.Commit of c: the row and the two counters it wrote become the committed ones.
\* Then the call publishes its event, or fails to and logs that.
TxCommit(c) ==
    /\ tx[c].pc = "commit"
    /\ LET f == tx[c].follower
           g == tx[c].followee
           delta == IF tx[c].op = "Follow" THEN 1 ELSE -1
       IN  /\ follows' = IF tx[c].op = "Follow"
                         THEN FollowCreate(follows, f, g).follows
                         ELSE FollowDelete(follows, f, g).follows
           /\ followerCount' = IncrementFollowerCount(followerCount, g, delta)
           /\ followingCount' = IncrementFollowingCount(followingCount, f, delta)
           /\ \/ outbox' = outbox \cup
                     {[type |-> IF tx[c].op = "Follow" THEN EventUserFollowed
                                ELSE EventUserUnfollowed,
                       post |-> 0, author |-> 0, follower |-> f, followee |-> g]}
              \/ UNCHANGED outbox
    /\ tx' = [tx EXCEPT ![c] = NoTx]
    /\ UNCHANGED <<now, posts, postCount, streamVars, workerVars, cache, pipe, sess,
                   notifications>>

\* The deferred tx.Rollback of c after a statement or the commit failed: a database
\* error, a cancelled context, or the database ending a deadlock.
TxRollback(c) ==
    /\ tx[c] # NoTx
    /\ tx' = [tx EXCEPT ![c] = NoTx]
    /\ UNCHANGED <<now, posts, postCount, follows, followerCount, followingCount,
                   outbox, streamVars, workerVars, cache, pipe, sess, notifications>>

NextFollowTx ==
    \/ \E c \in Conns, f, g \in Users : BeginFollow(c, f, g)
    \/ \E c \in Conns, f, g \in Users : BeginUnfollow(c, f, g)
    \/ \E c \in Conns : TxCreate(c)
    \/ \E c \in Conns : TxDelete(c)
    \/ \E c \in Conns : TxIncrementFollowerCount(c)
    \/ \E c \in Conns : TxIncrementFollowingCount(c)
    \/ \E c \in Conns : TxCommit(c)
    \/ \E c \in Conns : TxRollback(c)

SpecFollowTx == Init /\ [][NextFollowTx]_vars

\* The cache alone, its clients' pipelines interleaved command by command. Every
\* command names one key and touches no other, so one user's key stands for all.
NextCache ==
    \/ \E c \in Clients, p \in CachePostIds, s \in Scores : AddPostZAdd(c, 1, p, s)
    \/ \E c \in Clients, b \in Batches : WarmCacheZAdd(c, 1, b)
    \/ \E c \in Clients : PipelineTrim(c)
    \/ \E c \in Clients : PipelineExpire(c)
    \/ \E p \in CachePostIds : CacheRemovePost(1, p)
    \/ KeyExpires(1)

SpecCache == Init /\ [][NextCache]_vars

\* The read service over a posts table whose ids have reached two digits: the
\* table holds MaxTiePosts posts, the older ones of one author and one instant, the
\* two newest any two rows; the viewer's feed is absent or any feed within the cap
\* over entries the insert paths can have written for the three newest posts.
MaxTiePosts == 10

TiePostTables ==
    {[i \in 1..MaxTiePosts |->
         IF i <= MaxTiePosts - 2 THEN [author |-> a, created |-> 0, deleted |-> d]
         ELSE t[i - (MaxTiePosts - 2)]] :
        a \in Users, d \in BOOLEAN,
        t \in {x \in [1..2 -> PostRows] : x[1].created <= x[2].created}}

TieFeedsOver(P) ==
    {NoKey} \cup
    {[z |-> z, ttl |-> TRUE] :
        z \in {y \in SUBSET {Entry(p, s) : p \in (MaxTiePosts - 2)..MaxTiePosts, s \in Scores} :
                  /\ y # {}
                  /\ Cardinality(y) <= FeedCacheCap
                  /\ \A e \in y : e.score \in ScoresOf(P, e.post)
                  /\ \A d \in y, e \in y : d.post = e.post => d = e}}

InitTies ==
    /\ now = MaxTime
    /\ posts \in TiePostTables
    /\ follows \in SUBSET {<<UserPairs[i][1], UserPairs[i][2]>> : i \in 1..Len(UserPairs)}
    /\ outbox = {}
    /\ stream = <<>>
    /\ lastDelivered = 0
    /\ pel = [w \in Workers |-> {}]
    /\ wpc = [w \in Workers |-> "steady"]
    /\ batch = [w \in Workers |-> <<>>]
    /\ herr = [w \in Workers |-> "none"]
    /\ crashes = 0
    /\ \E k \in TieFeedsOver(posts) : cache = [u \in Users |-> IF u = 1 THEN k ELSE NoKey]
    /\ pipe = [c \in Clients |-> Idle]
    /\ sess = NoSess
    /\ postCount = PostCounts(posts)
    /\ followerCount = FollowerCounts(follows)
    /\ followingCount = FollowingCounts(follows)
    /\ tx = [c \in Conns |-> NoTx]
    /\ notifications = {}

NextTies ==
    \/ KeyExpires(1)
    \/ \E l \in 1..FeedMaxLimit : ReadFeedFirst(1, l)
    \/ ReadFeedNext

SpecTies == InitTies /\ [][NextTies]_vars

C2_ErrorNotAcked ==
    [][\A w \in Workers :
          (batch[w] # <<>> /\ herr[w] = "error") => Head(batch[w]) \in pel'[w]]_vars

\* C6: every post_created event in the stream names a post that is committed in
\* the posts table, with the author the event carries.
C6_CreatedEventsCommitted ==
    \A i \in 1..Len(stream) :
        stream[i].type = EventPostCreated
            => /\ stream[i].post \in 1..Len(posts)
               /\ posts[stream[i].post].author = stream[i].author

\* C6 witness: a worker holds the post_created event of the newest post.
C6_Witness ==
    \E w \in Workers :
        /\ batch[w] # <<>>
        /\ stream[Head(batch[w])].type = EventPostCreated
        /\ stream[Head(batch[w])].post = Len(posts)
        /\ Len(posts) = MaxPosts

\* The posts of all pages of the session, in the order they were returned.
RECURSIVE Concat(_)
Concat(pages) ==
    IF pages = <<>> THEN <<>> ELSE pages[1].posts \o Concat(Tail(pages))

IsPrefix(s, t) == Len(s) <= Len(t) /\ \A i \in 1..Len(s) : s[i] = t[i]

\* C3: a page returned by GetFeed holds no post that is deleted in the primary
\* store at the time of the read, whatever the cache holds.
C3_DeletedNeverReturned ==
    [][sess'.pages # sess.pages
          => LET page == sess'.pages[Len(sess'.pages)]
             IN  \A i \in 1..Len(page.posts) : ~posts[page.posts[i]].deleted]_vars

\* C3 witness: a page was read whose cache entries included a deleted post, which
\* hydration dropped.
C3_Witness ==
    \E i \in 1..Len(sess.pages) :
        /\ sess.pages[i].nread > Len(sess.pages[i].posts)
        /\ \E p \in 1..Len(posts) : posts[p].deleted

\* C4: in a session that started with the system at rest and during which the
\* viewer's true feed has not changed, the pages read so far, concatenated, are a
\* prefix of the true feed, and the whole of it once a page says hasMore = false.
C4_PagesArePrefixOfTrueFeed ==
    (sess.pages # <<>> /\ sess.feed = TrueFeed(posts, follows, sess.viewer) /\ Quiescent)
        => /\ IsPrefix(Concat(sess.pages), sess.feed)
           /\ (~sess.pages[Len(sess.pages)].hasMore /\ Len(sess.feed) <= FeedCacheCap)
                 => Concat(sess.pages) = sess.feed

\* C5: the posts of the page read with a page's nextCursor are all strictly older
\* than every post of that page, and no post is in both.
C5_NextPageStrictlyOlder ==
    \A i \in 1..(Len(sess.pages) - 1) :
        \A a \in Range(sess.pages[i].posts), b \in Range(sess.pages[i + 1].posts) :
            a # b /\ PostNewer(posts, a, b)

\* Handling e1 and then e2 leaves the caches as handling e2 and then e1 does.
Commute(e1, e2) ==
    HandleEvent(HandleEvent(cache, posts, follows, e1), posts, follows, e2)
        = HandleEvent(HandleEvent(cache, posts, follows, e2), posts, follows, e1)

\* A post_deleted and the post_created of the same post.
Matching(e1, e2) ==
    /\ {e1.type, e2.type} = {EventPostCreated, EventPostDeleted}
    /\ e1.post = e2.post

Removes(ev) == ev.type \in {EventPostDeleted, EventUserUnfollowed}

C8_RedeliveryIdempotent ==
    \A ev \in Range(stream) :
        LET once == HandleEvent(cache, posts, follows, ev)
        IN  HandleEvent(once, posts, follows, ev) = once

\* C8 witness: a user_followed event whose backfill changes the follower's feed,
\* which already holds an entry.
C8_Witness ==
    \E ev \in Range(stream) :
        /\ ev.type = EventUserFollowed
        /\ Exists(cache[ev.follower])
        /\ HandleEvent(cache, posts, follows, ev) # cache

\* Some client has run its ZADD on the user's key and not yet its trim.
Untrimmed(u) == \E c \in Clients : pipe[c].user = u /\ pipe[c].step = 1

\* C9: a feed holds at most FeedCacheCap entries once the trim of every AddPost
\* and WarmCache begun on it has run.
C9_SizeWithinCap ==
    \A u \in Users : ~Untrimmed(u) => Size(cache[u]) <= FeedCacheCap

\* C9 witness: a trim has just removed entries and left the feed at the cap.
C9_Witness ==
    \E c \in Clients :
        /\ pipe[c].step = 2
        /\ pipe[c].removed > 0
        /\ Size(cache[pipe[c].user]) = FeedCacheCap

C11_ScoreIsCreationTime ==
    [][\A u \in Users : \A e \in cache'[u].z :
          /\ e.post \in 1..Len(posts') => e.score = Unix(posts'[e.post].created)
          /\ \A d \in cache[u].z : d.post = e.post => d.score = e.score]_vars

\* C12: a newest-page read during which the Exists probe or the range read failed
\* returns no error, and returns the page the primary store gives: the first limit
\* posts of the viewer's true feed.
C12_CacheErrorFallsBack ==
    \A i \in 1..Len(sess.pages) :
        (i = 1 /\ sess.pages[i].cacheErr)
            => /\ ~sess.pages[i].err
               /\ sess.pages[i].posts = Take(TrueFeed(posts, follows, sess.viewer), sess.limit)

\* The page the primary store gives below a cursor <<id, seconds>>: the first limit
\* visible posts of the viewer and their followees with (created-at, id) strictly
\* below the cursor's pair, newest first.
StorePageBelow(P, F, userID, cursor, limit) ==
    Take(NewestFirst(P, {p \in 1..Len(P) :
                           /\ P[p].author \in GetFolloweeIDs(F, userID) \cup {userID}
                           /\ ~P[p].deleted
                           /\ \/ Unix(P[p].created) < cursor[2]
                              \/ /\ P[p].created = 2 * cursor[2]
                                 /\ p < cursor[1]}),
         limit)

\* C13: a read with a cursor that finds the cache absent, or whose range read
\* returns no entries, returns the page the primary store gives below the cursor.
C13_CursorFallsBackToStore ==
    [][(sess'.pages # sess.pages /\ sess.pages # <<>>)
          => LET cursor == sess.pages[Len(sess.pages)].next
                 k == cache[sess.viewer]
                 page == sess'.pages[Len(sess'.pages)]
             IN  (~Exists(k) \/ GetFeed(k, parseFeedCursor(cursor), sess.limit) = <<>>)
                     => page.posts = StorePageBelow(posts, follows, sess.viewer, cursor,
                                                    sess.limit)]_vars

\* The post is committed and its post_created event was never appended to the
\* stream: the Publish after the commit failed.
PublishLost(p) ==
    /\ p \in 1..Len(posts)
    /\ \A i \in 1..Len(stream) : ~(stream[i].type = EventPostCreated /\ stream[i].post = p)
    /\ \A o \in outbox : ~(o.type = EventPostCreated /\ o.post = p)

\* The viewer's own posts that were in their feed when the session's first page was
\* read, the whole feed fitting in one page, and whose publish failed.
LostOwnPosts ==
    {p \in 1..Len(posts) :
        /\ sess.pages # <<>>
        /\ p \in Range(sess.feed)
        /\ Len(sess.feed) <= sess.limit
        /\ posts[p].author = sess.viewer
        /\ PublishLost(p)}

C15_MalformedAcked ==
    \A w \in Workers :
        (wpc[w] = "steady" /\ batch[w] = <<>>)
            => \A m \in pel[w] : ParseFeedEvent(stream[m])

\* C16: after the shutdown signal a worker goes through the rest of the batch it
\* has read, handling each message and acknowledging it, reads nothing more, and
\* returns only with its batch finished.
C16_ShutdownFinishesBatch ==
    [][\A w \in Workers :
          /\ (wpc[w] = "stopping" /\ batch'[w] # batch[w])
                => /\ batch'[w] = Tail(batch[w])
                   /\ herr[w] = "nil"
                   /\ Head(batch[w]) \notin pel'[w]
          /\ wpc'[w] = "stopped" => batch'[w] = <<>>]_vars

C18_AckedNeverPending ==
    /\ [](\A w \in Workers : pel[w] \subseteq 1..lastDelivered)
    /\ [][\A w \in Workers :
             /\ (batch[w] # <<>> /\ batch'[w] = Tail(batch[w]) /\ pel' # pel)
                   => /\ \A c \in Workers : Head(batch[w]) \notin pel'[c]
                      /\ Pending(pel') = Pending(pel) - 1
             /\ \A m \in pel'[w] \ pel[w] : m > lastDelivered /\ m <= lastDelivered']_vars

\* C18 witness: every published event has been read, handled and acked, after a
\* crash in between, and the pending count is 0.
C18_Witness ==
    /\ Len(stream) = MaxEvents
    /\ lastDelivered = Len(stream)
    /\ crashes > 0
    /\ \A w \in Workers : wpc[w] = "steady" /\ batch[w] = <<>>
    /\ Pending(pel) = 0

\* The event that has just been handled, and the feeds its fan-out goes to.
Handled == stream[lastDelivered]

Recipients(ev) == GetFollowerIDs(follows, ev.author) \cup {ev.author}

Backfill(ev) == Range(GetRecentPostsByUser(posts, ev.followee, backfillLimit))

\* The posts of the session's first page that are among ids, in page order.
PageAmong(ids) == SelectSeq(sess.pages[1].posts, LAMBDA p : p \in ids)

EntriesBy(z, authorID) == {e \in z : posts[e.post].author = authorID}

\* The step handles a user_unfollowed event.
HandlesUnfollow ==
    /\ lastDelivered' = lastDelivered + 1
    /\ stream[lastDelivered'].type = EventUserUnfollowed

JourneyDone(s) ==
    /\ Underway(s)
    /\ Len(stream) = Len(s)
    /\ lastDelivered = Len(stream)
    /\ \A w \in Workers : pel[w] = {} /\ batch[w] = <<>>

\* What the journey is to leave: Alice's and Charlie's feeds hold p2 and p3, Bob's
\* feed is empty.
JourneyFeeds ==
    /\ JourneyDone(JourneyCalls(2, NumUsers + 1))
          => Members(cache[Alice].z) = {2, 3} /\ ~Exists(cache[2])
    /\ JourneyDone(JourneyCalls(NumUsers + 1, 2))
          => Members(cache[Alice].z) = {2, 3} /\ Members(cache[2].z) = {2, 3}

SingleWorker == \A w \in Workers : w > 1 => wpc[w] = "down"

C24_FanoutSurvivesFailure ==
    /\ [](\A w \in Workers :
            (batch[w] # <<>> /\ herr[w] = "none"
                 /\ stream[Head(batch[w])].type = EventPostCreated)
               => LET ev == stream[Head(batch[w])]
                  IN  \A failed \in SUBSET Recipients(ev), ran \in [Users -> 0..3] :
                          LET r == fanOut(cache, FanOutOrder(follows, ev), ev, failed, ran)
                          IN  /\ r.err = "nil"
                              /\ \A u \in Recipients(ev) \ failed :
                                    r.cache[u] = AddPost(cache[u], ev.post, ev.ts)
                              /\ \A u \in Users \ Recipients(ev) : r.cache[u] = cache[u])
    /\ [][\A w \in Workers :
             (batch[w] # <<>> /\ herr[w] = "nil" /\ batch'[w] # batch[w])
                => pel' \in {pel, Ack(pel, Head(batch[w]))}]_vars

\* C24 witness: a post_created event has been handled and acked; the author's
\* AddPost failed before any command ran, so the author's feed holds no entry for
\* the post, and a follower's feed holds it.
C24_Witness ==
    /\ lastDelivered = 1
    /\ stream[1].type = EventPostCreated
    /\ \A w \in Workers : pel[w] = {} /\ batch[w] = <<>>
    /\ stream[1].post \notin Members(cache[stream[1].author].z)
    /\ Size(cache[stream[1].author]) < FeedCacheCap
    /\ \E u \in GetFollowerIDs(follows, stream[1].author) :
          Entry(stream[1].post, stream[1].ts) \in cache[u].z

\* C25: a read writes entries into the viewer's feed (a warm) only when it carries
\* no cursor and finds the cache absent; a read with a cursor leaves the entries of
\* the feed as they are.
C25_WarmOnlyWithoutCursor ==
    [][sess'.pages # sess.pages
          => LET v == sess'.viewer
             IN  (sess.pages # <<>> \/ Exists(cache[v])) => cache'[v].z = cache[v].z]_vars

\* C26: every page GetFeed returns has hasMore = TRUE exactly when it holds as many
\* posts as the limit the call works with, and carries a nextCursor exactly when
\* hasMore is TRUE.
C26_HasMoreIffFullPage ==
    \A i \in 1..Len(sess.pages) :
        ~sess.pages[i].err
            => /\ sess.pages[i].hasMore <=> Len(sess.pages[i].posts) = sess.limit
               /\ sess.pages[i].next # <<>> <=> sess.pages[i].hasMore

\* C26 witness: a full first page with hasMore and a cursor, followed by a page for
\* which the cache returned limit entries and hydration fewer posts, without.
C26_Witness ==
    /\ Len(sess.pages) = 2
    /\ sess.pages[1].hasMore
    /\ sess.pages[1].next # <<>>
    /\ sess.pages[2].nread = sess.limit
    /\ Len(sess.pages[2].posts) < sess.limit
    /\ ~sess.pages[2].hasMore
    /\ sess.pages[2].next = <<>>

\* C27: whenever GetFeed returns a nextCursor, the cursor is <id>:<score> with the
\* id of the last post of the page it returns and the score under which the cache
\* the page was read from holds that post.
C27_CursorOfLastPost ==
    [][sess'.pages # sess.pages
          => LET page == sess'.pages[Len(sess'.pages)]
                 last == page.posts[Len(page.posts)]
             IN  page.next # <<>>
                    => /\ page.posts # <<>>
                       /\ page.next = formatFeedCursor(
                              (CHOOSE e \in cache'[sess'.viewer].z : e.post = last).score,
                              last)
                       /\ \E e \in cache'[sess'.viewer].z : e.post = last]_vars

\* C27 witness: a page of more than one post that carries a cursor, read from a
\* cache that holds the page's first and last post under different scores.
C27_Witness ==
    \E i \in 1..Len(sess.pages) :
        /\ Len(sess.pages[i].posts) > 1
        /\ sess.pages[i].next # <<>>
        /\ \E e1, e2 \in cache[sess.viewer].z :
              /\ e1.post = sess.pages[i].posts[1]
              /\ e2.post = sess.pages[i].posts[Len(sess.pages[i].posts)]
              /\ e1.score # e2.score

\* C28: posts that the cache a page is read from holds under equal scores are
\* returned in descending post-id order.
C28_TiesByDescendingId ==
    [][sess'.pages # sess.pages
          => LET page == sess'.pages[Len(sess'.pages)].posts
                 z == cache'[sess'.viewer].z
             IN  \A i, j \in 1..Len(page) :
                    (/\ i < j
                     /\ \E d, e \in z : d.post = page[i] /\ e.post = page[j] /\ d.score = e.score)
                        => page[i] > page[j]]_vars

\* The user_followed records for the edge (f, g) among a set of outbox records.
FollowedRecords(o, f, g) ==
    {r \in o : r.type = EventUserFollowed /\ r.follower = f /\ r.followee = g}

\* C29: Follow(f, g) on an edge that exists returns ErrAlreadyFollowing (the
\* handler's 409), leaves the follows table as it is and hands no event to the
\* publisher; while the edge exists no step adds a user_followed event for it to
\* the events awaiting publication, and the stream gains such an event only as
\* the publication of the one the insert produced.
C29_DuplicateFollowConflict ==
    /\ [](\A f \in Users, g \in Users :
             <<f, g>> \in follows
                 => /\ FollowCall(follows, f, g).err = "ErrAlreadyFollowing"
                    /\ FollowCall(follows, f, g).follows = follows
                    /\ FollowCall(follows, f, g).events = {})
    /\ [][\A f \in Users, g \in Users :
             <<f, g>> \in follows
                 => /\ FollowedRecords(outbox', f, g) \subseteq FollowedRecords(outbox, f, g)
                    /\ \A i \in (Len(stream) + 1)..Len(stream') :
                          (stream'[i].type = EventUserFollowed
                              /\ stream'[i].follower = f /\ stream'[i].followee = g)
                             => FollowedRecords(outbox, f, g) # {}]_vars

\* C29 witness: the edge (1, 2) exists, the event of its insert is in the stream
\* and none awaits publication, and Follow(1, 2) can be called again.
C29_Witness ==
    /\ <<1, 2>> \in follows
    /\ \E i \in 1..Len(stream) :
          stream[i].type = EventUserFollowed /\ stream[i].follower = 1 /\ stream[i].followee = 2
    /\ outbox = {}
    /\ ENABLED Follow(1, 2)

C31_CancelledReadMutatesNothing ==
    [][(\E u \in Users, l \in 1..FeedMaxLimit, at \in CancelPoints : ReadFeedCancelled(u, l, at))
          => cache' = cache /\ streamVars' = streamVars]_vars

\* C32: a feed key that exists has an expiry set, in every state; and the step
\* that ends an AddPost or a WarmCache, like every read, leaves the key it names
\* with an expiry.
C32_ExistingKeyHasExpiry ==
    /\ [](\A u \in Users : Exists(cache[u]) => cache[u].ttl)
    /\ [][\A c \in Clients :
             (pipe[c] # Idle /\ pipe'[c] = Idle)
                 => (Exists(cache'[pipe[c].user]) => cache'[pipe[c].user].ttl)]_vars

\* C33: the trim of an AddPost or a WarmCache that finds more than FeedCacheCap
\* entries leaves exactly FeedCacheCap of them, removes nothing else and adds
\* nothing, and no entry it removes has a higher score than an entry it keeps; a
\* trim that finds the feed within the cap removes nothing.
C33_TrimRemovesLowest ==
    [][\A c \in Clients :
          (pipe[c].step = 1 /\ pipe'[c].step = 2)
              => LET before == cache[pipe[c].user].z
                     after == cache'[pipe[c].user].z
                 IN  /\ after \subseteq before
                     /\ Cardinality(after) = Min(Cardinality(before), FeedCacheCap)
                     /\ \A r \in before \ after, k \in after : r.score <= k.score]_vars

\* C33 witness: a trim has just removed an entry from a feed over the cap and left
\* FeedCacheCap entries of different scores.
C33_Witness ==
    \E c \in Clients :
        /\ pipe[c].step = 2
        /\ pipe[c].removed > 0
        /\ Size(cache[pipe[c].user]) = FeedCacheCap
        /\ \E d, e \in cache[pipe[c].user].z : d.score # e.score

\* The cursor has the form <postId>:<unixSeconds>: two non-empty runs of decimal
\* digits with one colon between them and nothing else.
WellFormedCursor(cursor) ==
    /\ Len(Split(cursor, ":")) = 2
    /\ IsDigits(Split(cursor, ":")[1])
    /\ IsDigits(Split(cursor, ":")[2])

\* C34: GET /feed with a cursor that is not of the form <postId>:<unixSeconds>
\* is answered with an error, and the error is an invalid argument.
C34_MalformedCursorRejected ==
    (sess.pages # <<>> /\ ~WellFormedCursor(sess.cursor))
        => /\ sess.pages[1].err # "nil"
           /\ sess.pages[1].status = "InvalidArgument"

\* C35: once every event has been handled, a feed key that exists holds every
\* post a warm would load, and a newest-page read served from an existing key with
\* a limit that covers the viewer's true feed returns all of its posts.
C35_ExistingCacheComplete ==
    /\ [](\A v \in Users :
             (Quiescent /\ Exists(cache[v]))
                 => Members(warmCache(NoKey, posts, follows, v).z) \subseteq Members(cache[v].z))
    /\ [][(sess = NoSess /\ sess' # NoSess /\ Quiescent /\ Exists(cache[sess'.viewer]))
             => (Len(sess'.feed) <= sess'.limit
                    => Range(sess'.feed) \subseteq Range(sess'.pages[1].posts))]_vars

\* C36: once every published event has been handled and acknowledged, no feed
\* holds a post of an author its owner does not follow, the owner's own apart.
C36_NoPostsOfUnfollowed ==
    Quiescent
        => \A u \in Users : \A e \in cache[u].z :
              e.post \in 1..Len(posts)
                  => \/ posts[e.post].author = u
                     \/ <<u, posts[e.post].author>> \in follows

\* C37: once Follow(2, 1) and the posts of user 1 have committed and every event
\* published has been handled, each of those posts is in the feed of user 2,
\* whichever call committed first and whichever worker handled which event.
C37_FollowAndPostBothLand ==
    (Quiescent /\ <<2, 1>> \in follows)
        => \A p \in 1..Len(posts) : p \in Members(cache[2].z)

\* C37 witness: the post committed before the follow and the two events went to
\* different workers; the follow's has been handled and has put the post into the
\* follower's feed while the post's own event is still waiting in its batch.
C37_Witness ==
    /\ Len(stream) = 2
    /\ stream[1].type = EventPostCreated
    /\ stream[2].type = EventUserFollowed
    /\ \E w \in Workers : batch[w] = <<1>>
    /\ \A w \in Workers : 2 \notin pel[w]
    /\ lastDelivered = 2
    /\ 1 \in Members(cache[2].z)
    /\ cache[1] = NoKey

\* C38: when GetFeed returns a page with hasMore = FALSE, the feed it read holds
\* no visible post below the page: none that the page's range covers, that the page
\* does not return, and that is older than the last post returned (any such post,
\* when the page returns none).
C38_NoMoreMeansExhausted ==
    [][sess'.pages # sess.pages
          => LET n == Len(sess'.pages)
                 page == sess'.pages[n]
                 z == cache'[sess'.viewer].z
                 inRange(e) == n = 1 \/ e.score < parseFeedCursor(sess'.pages[n - 1].next)
                 older(e) ==
                     \/ page.posts = <<>>
                     \/ \E d \in z : d.post = page.posts[Len(page.posts)] /\ e.score < d.score
             IN  (~page.err /\ ~page.hasMore)
                    => \A e \in z :
                          (Visible(posts, e.post) /\ inRange(e) /\ older(e))
                              => e.post \in Range(page.posts)]_vars

\* C39: after any sequence of Follow and Unfollow calls, successful, rejected,
\* duplicate or concurrent, each user's follower count is the number of follow
\* edges pointing to them, their following count the number of edges leaving
\* them, and neither counter is negative.
C39_CountersMatchEdges ==
    \A u \in Users :
        /\ followerCount[u] = Cardinality({e \in follows : e[2] = u})
        /\ followingCount[u] = Cardinality({e \in follows : e[1] = u})
        /\ followerCount[u] >= 0
        /\ followingCount[u] >= 0

\* User 1 follows user 2 and both counters say so, while one connection is about
\* to commit the Unfollow of that edge and the other has begun a Follow of the
\* same edge, whose INSERT waits for the first to end.
C39_Witness ==
    /\ follows = {<<1, 2>>}
    /\ followerCount[2] = 1
    /\ followingCount[1] = 1
    /\ \E c, d \in Conns :
          /\ tx[c] = [op |-> "Unfollow", follower |-> 1, followee |-> 2, pc |-> "commit"]
          /\ tx[d] = [op |-> "Follow", follower |-> 1, followee |-> 2, pc |-> "create"]

\* C40: whenever a user_followed(f, g) event with f different from g is
\* processed, a follow notification for g with actor f is created, however many
\* posts g has.
C40_FollowNotificationCreated ==
    [][(/\ lastDelivered' = lastDelivered + 1
        /\ stream[lastDelivered'].type = EventUserFollowed
        /\ stream[lastDelivered'].follower # stream[lastDelivered'].followee)
          => [user |-> stream[lastDelivered'].followee,
              actor |-> stream[lastDelivered'].follower,
              type |-> "follow"] \in notifications']_vars

====
